---- MODULE Spec2Model ----
(***************************************************************************)
(* Model of the chat surface of deep-agents (ui/src/app).                  *)
(*                                                                         *)
(* The central object is the useMemo callback of ChatInterface.tsx that    *)
(* folds the flat stream of messages into render turns ("reconcile" in     *)
(* the specification).  JavaScript values are modelled as follows:         *)
(*   - undefined is the string Undefined, which no other value uses;       *)
(*   - a value that may or may not be an array is a record [tag, items];   *)
(*   - an element of a tool-call list or of a content array is a record    *)
(*     of the properties the code reads, with kind "null" for a null or    *)
(*     undefined element and "primitive" for a number or a string;         *)
(*   - argument payloads and texts are opaque strings;                     *)
(*   - Math.random() is a draw from RandomValues, one per call.            *)
(***************************************************************************)
EXTENDS Naturals, Sequences, FiniteSets

\* Number of messages the stream delivers to one thread.
MaxMessages == 3

\* The same, for the threads whose assistant messages take every shape.
MaxShapedMessages == 2

\* Number of calls of the callback that may be in flight together, and the
\* number of messages that arrive while they are.
MaxCalls == 3
MaxOverlapMessages == 2

\* Number of prompts created in the prompt manager.
MaxCreated == 1

\* Number of threads the server creates while the page is open.
MaxThreads == 1

\* Number of getState requests in flight at a time.
MaxInFlight == 2

Undefined == "undefined"

\* JavaScript falsiness of the values the || chains see (strings or undefined).
Falsy(v) == v \in {Undefined, ""}

\* a || b
OrElse(a, b) == IF Falsy(a) THEN b ELSE a

(***************************************************************************)
(* Values of the input records.                                            *)
(***************************************************************************)
NoFunction == [defined |-> FALSE, name |-> Undefined, arguments |-> Undefined]

\* An object with none of the properties the code reads: {}.
EmptyObject ==
    [kind |-> "object", function |-> NoFunction, name |-> Undefined,
     type |-> Undefined, id |-> Undefined, args |-> Undefined,
     input |-> Undefined, text |-> Undefined]

NullEntry == [EmptyObject EXCEPT !.kind = "null"]

\* A number or a string in a list: every property read yields undefined.
PrimitiveEntry == [EmptyObject EXCEPT !.kind = "primitive"]

NotAList == [tag |-> "undefined", items |-> <<>>]
\* A truthy value that is not an array.
NonArray == [tag |-> "string", items |-> <<>>]
List(s) == [tag |-> "array", items |-> s]

\* A text is the sequence of its fragments, so that joining texts is \o.
StringContent(t) == [tag |-> "string", text |-> <<t>>, items |-> <<>>]
ArrayContent(s) == [tag |-> "array", text |-> <<>>, items |-> s]
NoContent == [tag |-> "undefined", text |-> <<>>, items |-> <<>>]

\* The literal {} of the arguments fallback.
EmptyMapping == "{}"

RandomValues == {"0.25", "0.75"}

\* `tool-${Math.random()}`
SyntheticId(r) == IF r = "0.25" THEN "tool-0.25" ELSE "tool-0.75"

SyntheticIds == {SyntheticId(r) : r \in RandomValues}


(***************************************************************************)
(* The pass over the messages (ChatInterface.tsx, processedMessages).      *)
(***************************************************************************)

HasNull(s) == \E i \in 1..Len(s) : s[i].kind = "null"

\* message.additional_kwargs?.tool_calls
NestedToolCalls(message) ==
    IF message.additional_kwargs.defined
    THEN message.additional_kwargs.tool_calls
    ELSE NotAList

\* Variant: an empty list does not count, and the next shape is tried.
IsNonEmptyArray(v) == v.tag = "array" /\ v.items # <<>>

\* v && Array.isArray(v): every array is truthy, the empty one too.
IsTruthyArray(v) == v.tag = "array"

\* Variant: the flat list is looked at before the nested one.
SelectedShapeFlatFirst(message) ==
    IF IsTruthyArray(message.tool_calls) THEN "flat"
    ELSE IF IsTruthyArray(NestedToolCalls(message)) THEN "nested"
    ELSE IF message.content.tag = "array" THEN "content"
    ELSE "none"

\* Which of the three shapes the if / else-if chain takes.
SelectedShape(message) ==
    IF IsTruthyArray(NestedToolCalls(message)) THEN "nested"
    ELSE IF IsTruthyArray(message.tool_calls) THEN "flat"
    ELSE IF message.content.tag = "array" THEN "content"
    ELSE "none"

\* The list the selected branch reads.
SelectedList(message) ==
    CASE SelectedShape(message) = "nested" -> NestedToolCalls(message).items
      [] SelectedShape(message) = "flat" -> message.tool_calls.items
      [] SelectedShape(message) = "content" -> message.content.items
      [] OTHER -> <<>>

\* Reading a property of null or undefined raises a TypeError: in the filter
\* callbacks of the flat and content branches, and in the map callback for
\* the entries pushed unfiltered by the nested branch.
ThrowsTypeError(message) == HasNull(SelectedList(message))

NameIsNotEmpty(toolCall) == toolCall.name # ""
IsToolUse(block) == block.type = "tool_use"

\* Variant: the entries of the nested list are filtered by name as well.
toolCallsInMessageNestedFiltered(message) ==
    CASE SelectedShape(message) = "nested" ->
             SelectSeq(NestedToolCalls(message).items, NameIsNotEmpty)
      [] SelectedShape(message) = "flat" ->
             SelectSeq(message.tool_calls.items, NameIsNotEmpty)
      [] SelectedShape(message) = "content" ->
             SelectSeq(message.content.items, IsToolUse)
      [] OTHER -> <<>>

toolCallsInMessage(message) ==
    CASE SelectedShape(message) = "nested" -> NestedToolCalls(message).items
      [] SelectedShape(message) = "flat" ->
             SelectSeq(message.tool_calls.items, NameIsNotEmpty)
      [] SelectedShape(message) = "content" ->
             SelectSeq(message.content.items, IsToolUse)
      [] OTHER -> <<>>

\* toolCall.function?.name and toolCall.function?.arguments
FunctionName(toolCall) ==
    IF toolCall.function.defined THEN toolCall.function.name ELSE Undefined
FunctionArguments(toolCall) ==
    IF toolCall.function.defined THEN toolCall.function.arguments ELSE Undefined

ToolCallName(toolCall) ==
    OrElse(FunctionName(toolCall),
           OrElse(toolCall.name, OrElse(toolCall.type, "unknown")))

\* Variant: args and input are looked at before function.arguments.
ToolCallArgsFunctionLast(toolCall) ==
    OrElse(toolCall.args,
           OrElse(toolCall.input,
                  OrElse(FunctionArguments(toolCall), EmptyMapping)))

ToolCallArgs(toolCall) ==
    OrElse(FunctionArguments(toolCall),
           OrElse(toolCall.args, OrElse(toolCall.input, EmptyMapping)))

\* toolCall.id || `tool-${Math.random()}`
ToolCallId(toolCall, random) ==
    IF Falsy(toolCall.id) THEN SyntheticId(random) ELSE toolCall.id

NoResult == [defined |-> FALSE, text |-> <<>>]

\* Number of entries among the first i of calls that have no usable id, that
\* is the number of Math.random() calls made up to and including entry i.
MissingIds(calls, i) == Cardinality({j \in 1..i : Falsy(calls[j].id)})

\* Variant: in a message that has an entry without id, the generated id is
\* given to every entry, also to those that carry an id.
\* Variant: an invocation without an id keeps the missing id.
toolCallsWithStatusKeepsMissingId(calls, draws, used) ==
    [i \in 1..Len(calls) |->
        [id |-> calls[i].id,
         name |-> ToolCallName(calls[i]),
         args |-> ToolCallArgs(calls[i]),
         status |-> "pending",
         result |-> NoResult]]

toolCallsWithStatusAllSynthetic(calls, draws, used) ==
    [i \in 1..Len(calls) |->
        [id |-> IF MissingIds(calls, Len(calls)) > 0
                THEN SyntheticId(draws[used + MissingIds(calls, Len(calls))])
                ELSE calls[i].id,
         name |-> ToolCallName(calls[i]),
         args |-> ToolCallArgs(calls[i]),
         status |-> "pending",
         result |-> NoResult]]

\* draws is the sequence of values Math.random() returns during the pass,
\* used the number of them consumed by earlier messages.
toolCallsWithStatus(calls, draws, used) ==
    [i \in 1..Len(calls) |->
        [id |-> IF Falsy(calls[i].id)
                THEN ToolCallId(calls[i], draws[used + MissingIds(calls, i)])
                ELSE ToolCallId(calls[i], Undefined),
         name |-> ToolCallName(calls[i]),
         args |-> ToolCallArgs(calls[i]),
         status |-> "pending",
         result |-> NoResult]]

\* utils/utils.ts: a string content is returned as it is, of an array content
\* the texts of the text blocks are joined.
RECURSIVE JoinTexts(_)
JoinTexts(blocks) ==
    IF blocks = <<>> THEN <<>>
    ELSE (IF Head(blocks).type = "text" /\ Head(blocks).text # Undefined
          THEN <<Head(blocks).text>> ELSE <<>>) \o JoinTexts(Tail(blocks))

extractStringFromMessageContent(message) ==
    CASE message.content.tag = "string" -> message.content.text
      [] message.content.tag = "array" -> JoinTexts(message.content.items)
      [] OTHER -> <<>>

\* messageMap is a JavaScript Map: the sequence of its entries in insertion
\* order, each [key, message, toolCalls].
KeyIndex(messageMap, key) ==
    IF \E i \in 1..Len(messageMap) : messageMap[i].key = key
    THEN CHOOSE i \in 1..Len(messageMap) : messageMap[i].key = key
    ELSE 0

\* Variant: a new key is put in front of the entries.
MapSetFront(messageMap, data) ==
    IF KeyIndex(messageMap, data.key) = 0
    THEN <<data>> \o messageMap
    ELSE [messageMap EXCEPT ![KeyIndex(messageMap, data.key)] = data]

\* Variant: an existing key keeps its position and its value.
MapSetKeepsValue(messageMap, data) ==
    IF KeyIndex(messageMap, data.key) = 0
    THEN Append(messageMap, data)
    ELSE messageMap

\* Map.prototype.set(data.key, data): an existing key keeps its position and
\* gets the new value.
MapSet(messageMap, data) ==
    IF KeyIndex(messageMap, data.key) = 0
    THEN Append(messageMap, data)
    ELSE [messageMap EXCEPT ![KeyIndex(messageMap, data.key)] = data]

\* data.toolCalls.findIndex((tc) => tc.id === toolCallId), 0 for -1.
findIndex(toolCalls, toolCallId) ==
    IF \E i \in 1..Len(toolCalls) : toolCalls[i].id = toolCallId
    THEN CHOOSE i \in 1..Len(toolCalls) :
             /\ toolCalls[i].id = toolCallId
             /\ \A j \in 1..(i - 1) : toolCalls[j].id # toolCallId
    ELSE 0

\* The first entry, in insertion order, one of whose tool calls has the id;
\* 0 when the for loop runs to its end without a match.
FirstMatchingEntry(messageMap, toolCallId) ==
    IF \E e \in 1..Len(messageMap) : findIndex(messageMap[e].toolCalls, toolCallId) # 0
    THEN CHOOSE e \in 1..Len(messageMap) :
             /\ findIndex(messageMap[e].toolCalls, toolCallId) # 0
             /\ \A d \in 1..(e - 1) : findIndex(messageMap[d].toolCalls, toolCallId) = 0
    ELSE 0

Completed(toolCall, message) ==
    [toolCall EXCEPT !.status = "completed",
                     !.result = [defined |-> TRUE,
                                 text |-> extractStringFromMessageContent(message)]]

\* Variant: the matching tool call is completed by rebuilding the list of
\* its turn, which gives every other tool call of the turn the status pending.
FoldToolMessageResetOthers(messageMap, message) ==
    LET toolCallId == message.tool_call_id
        e == FirstMatchingEntry(messageMap, toolCallId)
    IN  IF Falsy(toolCallId) \/ e = 0
        THEN messageMap
        ELSE [messageMap EXCEPT ![e].toolCalls =
                 [i \in 1..Len(messageMap[e].toolCalls) |->
                     IF i = findIndex(messageMap[e].toolCalls, toolCallId)
                     THEN Completed(messageMap[e].toolCalls[i], message)
                     ELSE [messageMap[e].toolCalls[i] EXCEPT
                              !.status = "pending", !.result = NoResult]]]

\* Variant: a tool message that matches no tool call becomes a turn.
FoldToolMessageKeepOrphan(messageMap, message) ==
    LET toolCallId == message.tool_call_id
        e == FirstMatchingEntry(messageMap, toolCallId)
    IN  IF Falsy(toolCallId) \/ e = 0
        THEN Append(messageMap,
                    [key |-> message.id, message |-> message, toolCalls |-> <<>>])
        ELSE LET toolCallIndex == findIndex(messageMap[e].toolCalls, toolCallId)
             IN  [messageMap EXCEPT ![e].toolCalls[toolCallIndex] =
                      Completed(messageMap[e].toolCalls[toolCallIndex], message)]

\* Variant: the loop over the entries has no break, so the first matching
\* tool call of every turn is completed.
FoldToolMessageNoBreak(messageMap, message) ==
    LET toolCallId == message.tool_call_id
    IN  IF Falsy(toolCallId)
        THEN messageMap
        ELSE [e \in 1..Len(messageMap) |->
                 IF findIndex(messageMap[e].toolCalls, toolCallId) = 0
                 THEN messageMap[e]
                 ELSE [messageMap[e] EXCEPT
                          !.toolCalls[findIndex(messageMap[e].toolCalls, toolCallId)] =
                              Completed(messageMap[e].toolCalls[
                                  findIndex(messageMap[e].toolCalls, toolCallId)],
                                  message)]]

\* Variant: a tool message is folded into the first tool call with its id
\* that is still pending.
FoldToolMessageFirstPending(messageMap, message) ==
    LET toolCallId == message.tool_call_id
        isPending(e, i) ==
            /\ messageMap[e].toolCalls[i].id = toolCallId
            /\ messageMap[e].toolCalls[i].status = "pending"
        hasPending(e) == \E i \in 1..Len(messageMap[e].toolCalls) : isPending(e, i)
    IN  IF Falsy(toolCallId) \/ ~\E e \in 1..Len(messageMap) : hasPending(e)
        THEN messageMap
        ELSE LET e == CHOOSE e \in 1..Len(messageMap) :
                          hasPending(e) /\ \A d \in 1..(e - 1) : ~hasPending(d)
                 toolCallIndex ==
                      CHOOSE i \in 1..Len(messageMap[e].toolCalls) :
                          isPending(e, i) /\ \A h \in 1..(i - 1) : ~isPending(e, h)
             IN  [messageMap EXCEPT ![e].toolCalls[toolCallIndex] =
                      Completed(messageMap[e].toolCalls[toolCallIndex], message)]

\* Variant: a tool call that is completed keeps its first result.
FoldToolMessageFirstResultWins(messageMap, message) ==
    LET toolCallId == message.tool_call_id
        e == FirstMatchingEntry(messageMap, toolCallId)
    IN  IF Falsy(toolCallId) \/ e = 0
        THEN messageMap
        ELSE LET toolCallIndex == findIndex(messageMap[e].toolCalls, toolCallId)
             IN  IF messageMap[e].toolCalls[toolCallIndex].status = "completed"
                 THEN messageMap
                 ELSE [messageMap EXCEPT ![e].toolCalls[toolCallIndex] =
                          Completed(messageMap[e].toolCalls[toolCallIndex], message)]

FoldToolMessage(messageMap, message) ==
    LET toolCallId == message.tool_call_id
        e == FirstMatchingEntry(messageMap, toolCallId)
    IN  IF Falsy(toolCallId) \/ e = 0
        THEN messageMap
        ELSE LET toolCallIndex == findIndex(messageMap[e].toolCalls, toolCallId)
             IN  [messageMap EXCEPT ![e].toolCalls[toolCallIndex] =
                      Completed(messageMap[e].toolCalls[toolCallIndex], message)]

\* State of the pass: the map, the number of Math.random() values consumed,
\* and whether a TypeError has ended the pass.
EmptyPass == [messageMap |-> <<>>, used |-> 0, threw |-> FALSE]

\* Variant: the entry of a human message is keyed by the message type.
HumanTurnKeyedByType(message) ==
    [key |-> message.type, message |-> message, toolCalls |-> <<>>]

\* The entry set for a human message.
HumanTurn(message) ==
    [key |-> message.id, message |-> message, toolCalls |-> <<>>]

\* The entry set for an assistant message.
AiTurn(message, draws, used) ==
    [key |-> message.id, message |-> message,
     toolCalls |-> toolCallsWithStatus(toolCallsInMessage(message), draws, used)]

\* Variant: the last branch is a plain else, so that a message of any other
\* type is entered like a human message.
forEachBodyElseTurn(pass, message, draws) ==
    CASE message.type = "ai" ->
           [pass EXCEPT
               !.messageMap = MapSet(pass.messageMap,
                                     AiTurn(message, draws, pass.used)),
               !.used = pass.used +
                        MissingIds(toolCallsInMessage(message),
                                   Len(toolCallsInMessage(message)))]
      [] message.type = "tool" ->
           [pass EXCEPT !.messageMap = FoldToolMessage(pass.messageMap, message)]
      [] OTHER ->
           [pass EXCEPT !.messageMap = MapSet(pass.messageMap, HumanTurn(message))]

\* The body of messages.forEach for one message.
forEachBody(pass, message, draws) ==
    CASE message.type = "ai" ->
           IF ThrowsTypeError(message)
           THEN [pass EXCEPT !.threw = TRUE]
           ELSE [pass EXCEPT
                   !.messageMap = MapSet(pass.messageMap,
                                         AiTurn(message, draws, pass.used)),
                   !.used = pass.used +
                            MissingIds(toolCallsInMessage(message),
                                       Len(toolCallsInMessage(message)))]
      [] message.type = "tool" ->
           [pass EXCEPT !.messageMap = FoldToolMessage(pass.messageMap, message)]
      [] message.type = "human" ->
           [pass EXCEPT !.messageMap = MapSet(pass.messageMap, HumanTurn(message))]
      [] OTHER -> pass

RECURSIVE forEach(_, _, _, _)
forEach(msgs, i, pass, draws) ==
    IF i > Len(msgs) \/ pass.threw
    THEN pass
    ELSE forEach(msgs, i + 1, forEachBody(pass, msgs[i], draws), draws)

\* Variant: every turn is compared with the first turn.
showAvatarAgainstFirst(processedArray, index) ==
    IF index > 1
    THEN processedArray[index].message.type # processedArray[1].message.type
    ELSE processedArray[index].message.type # Undefined

\* processedArray.map: the first turn has no predecessor (prevMessage?.type
\* is undefined, which differs from every message type).
showAvatar(processedArray, index) ==
    IF index > 1
    THEN processedArray[index].message.type # processedArray[index - 1].message.type
    ELSE processedArray[index].message.type # Undefined

\* Array.from(messageMap.values()).map(...): every entry with its showAvatar.
render(processedArray) ==
    [index \in 1..Len(processedArray) |->
        [message |-> processedArray[index].message,
         toolCalls |-> processedArray[index].toolCalls,
         showAvatar |-> showAvatar(processedArray, index)]]

\* What the callback returns for the state in which the pass ended.
Outcome(pass) ==
    IF pass.threw
    THEN [threw |-> TRUE, turns |-> <<>>]
    ELSE [threw |-> FALSE, turns |-> render(pass.messageMap)]

IsToolMessage(message) == message.type = "tool"
IsNoToolMessage(message) == message.type # "tool"

\* Variant: the tool messages are folded after all the other messages have
\* been entered, whatever their place in the array.
reconcileTurnsFirst(msgs, draws) ==
    Outcome(forEach(SelectSeq(msgs, IsNoToolMessage) \o SelectSeq(msgs, IsToolMessage),
                    1, EmptyPass, draws))

\* The useMemo callback: the value of processedMessages for the given
\* messages, or threw when a TypeError leaves the callback.
reconcile(msgs, draws) == Outcome(forEach(msgs, 1, EmptyPass, draws))

\* Variant: the nested calls are pushed onto the tool_calls array of the
\* message, not onto a local array.
messageAfterBodyPushesOntoFlat(message) ==
    IF /\ message.type = "ai"
       /\ SelectedShape(message) = "nested"
       /\ IsTruthyArray(message.tool_calls)
    THEN [message EXCEPT !.tool_calls.items = @ \o NestedToolCalls(message).items]
    ELSE message

\* The record of a message after the body has run for it.  The body writes
\* to three objects: toolCallsInMessage (an array literal of its own, whose
\* elements are the entries of the message), the Map created by the
\* callback, and data.toolCalls (the array that toolCallsInMessage.map
\* returns, of object literals); no write goes to the message or its lists.
messageAfterBody(message) == message

\* The messages array after the callback has run over it.
inputAfter(msgs) == [k \in 1..Len(msgs) |-> messageAfterBody(msgs[k])]

RECURSIVE mathRandomCalls(_)
\* Number of Math.random() calls of a pass that runs to its end.
mathRandomCalls(msgs) ==
    IF msgs = <<>> THEN 0
    ELSE (IF Head(msgs).type = "ai" /\ ~ThrowsTypeError(Head(msgs))
          THEN MissingIds(toolCallsInMessage(Head(msgs)),
                          Len(toolCallsInMessage(Head(msgs))))
          ELSE 0) + mathRandomCalls(Tail(msgs))

\* The possible outcomes of the Math.random() calls of one pass.
Draws(msgs) == [1..mathRandomCalls(msgs) -> RandomValues]

(***************************************************************************)
(* The messages the stream delivers.                                       *)
(***************************************************************************)

\* The id of the message at a position of the thread, as the server or
\* uuidv4() assigns it.
MessageIds == <<"m1", "m2", "m3", "m4", "m5", "m6">>

Fn(n, a) == [defined |-> TRUE, name |-> n, arguments |-> a]

\* Nested function-call entries (additional_kwargs.tool_calls).
NestedSearch ==
    [EmptyObject EXCEPT !.function = Fn("search", "{\"q\":\"x\"}"),
                        !.type = "function", !.id = "t1"]
NestedHybrid ==
    [EmptyObject EXCEPT !.function = Fn("calc", "{\"n\":1}"), !.type = "function",
                        !.name = "lookup", !.args = "{k:v}", !.id = "t2"]
NestedBare ==
    [EmptyObject EXCEPT !.function = Fn("", ""), !.type = "function",
                        !.name = ""]

\* Flat entries (tool_calls).
FlatSearch ==
    [EmptyObject EXCEPT !.name = "search", !.args = "{q:x}", !.id = "t1",
                        !.type = "tool_call"]
FlatLookup ==
    [EmptyObject EXCEPT !.name = "lookup", !.args = "{k:v}", !.id = "t2"]
FlatNameless ==
    [EmptyObject EXCEPT !.name = "", !.args = "{z:0}", !.id = "t2"]

FlatTyped ==
    [EmptyObject EXCEPT !.type = "tool_call", !.input = "{i:1}", !.id = "t2"]

\* Content blocks.
TextBlock == [EmptyObject EXCEPT !.type = "text", !.text = "hello"]
ToolUseLookup ==
    [EmptyObject EXCEPT !.type = "tool_use", !.id = "t2", !.name = "lookup",
                        !.input = "{k:v}"]
ToolUseBare == [EmptyObject EXCEPT !.type = "tool_use", !.id = "t1", !.name = ""]

Kwargs(v) == [defined |-> TRUE, tool_calls |-> v]
NoKwargs == [defined |-> FALSE, tool_calls |-> NotAList]

\* The three places of an assistant message where tool calls may stand.
Shapes(nested, flat, content) ==
    [additional_kwargs |-> nested, tool_calls |-> flat, content |-> content]

PlainAnswer == Shapes(NoKwargs, NotAList, StringContent("answer"))
FlatWithNamelessAndBare ==
    Shapes(Kwargs(NotAList), List(<<FlatSearch, FlatNameless, EmptyObject, FlatTyped>>),
           ArrayContent(<<ToolUseLookup>>))
ToolUseContent ==
    Shapes(NoKwargs, NotAList, ArrayContent(<<TextBlock, ToolUseLookup, ToolUseBare>>))
FlatSameIdTwice ==
    Shapes(Kwargs(NonArray), List(<<FlatSearch, FlatSearch>>), StringContent(""))

\* The assistant messages of the threads of Spec.
ThreadShapes ==
    {PlainAnswer, FlatWithNamelessAndBare, ToolUseContent, FlatSameIdTwice}

\* Assistant messages in every combination of shapes the code tells apart.
AiShapes ==
    ThreadShapes \cup
    { Shapes(Kwargs(List(<<NestedSearch, NestedHybrid, NestedBare>>)),
             List(<<FlatLookup>>), StringContent("")),
      Shapes(Kwargs(List(<<>>)), List(<<FlatSearch>>), ArrayContent(<<ToolUseLookup>>)),
      Shapes(NoKwargs, List(<<FlatNameless>>), ArrayContent(<<TextBlock, ToolUseLookup>>)),
      Shapes(NoKwargs, List(<<>>), ArrayContent(<<ToolUseLookup>>)),
      Shapes(Kwargs(List(<<NestedSearch>>)), NotAList, ArrayContent(<<ToolUseLookup>>)) }

\* What an assistant message that repeats an earlier message id carries.
RepeatedShapes ==
    { Shapes(NoKwargs, List(<<FlatSearch, FlatLookup>>), StringContent("")) }

\* Assistant messages whose lists hold entries that are not objects, and one
\* that lacks every field.
MalformedShapes ==
    { Shapes(NoKwargs, List(<<FlatSearch, NullEntry>>), StringContent("")),
      Shapes(Kwargs(List(<<NullEntry>>)), NotAList, StringContent("")),
      Shapes(NoKwargs, NotAList, ArrayContent(<<TextBlock, NullEntry>>)),
      Shapes(NoKwargs, List(<<PrimitiveEntry>>), ArrayContent(<<NullEntry>>)),
      Shapes(NoKwargs, NotAList, NoContent) }

\* The tool_call_id and the content of the tool messages.
ToolResults ==
    { <<"t1", "result-x">>, <<"t1", "result-y">>, <<"t2", "result-x">>,
      <<"t-nonexistent", "ignored">>, <<"", "ignored">>, <<Undefined, "ignored">> }

Message(id, type, shapes, toolCallId) ==
    [id |-> id, type |-> type, content |-> shapes.content,
     additional_kwargs |-> shapes.additional_kwargs,
     tool_calls |-> shapes.tool_calls, tool_call_id |-> toolCallId]

Text(t) == Shapes(NoKwargs, NotAList, StringContent(t))

(***************************************************************************)
(* The component: stream.messages and the memoised processedMessages.      *)
(***************************************************************************)
VARIABLES messages, processedMessages

\* The calls of the callback, by their number, and the Map objects on the
\* heap, by their address.
VARIABLES passes, messageMaps

\* PromptManager: its prompts, the prompt being edited, the dialog, the
\* fields of the PromptEditor in the dialog, and the clock behind Date.now().
VARIABLES prompts, editingPrompt, isDialogOpen, editor, now

chatVars == <<messages, processedMessages>>
overlapVars == <<passes, messageMaps>>
\* HomePage: its state, the threadId of the URL, the getState requests in
\* flight and the number of threads created; AgentSwitcher: selectedAgent
\* and isOpen.
VARIABLES currentAgent, agentThreadIds, threadId, selectedSubAgent, todos,
          files, isLoadingThreadState, requests, created, accessToken,
          selectedAgent, isOpen

\* PromptSelector: its state (prompts, filteredPrompts, searchQuery, isOpen),
\* the input of ChatInterface, and the arguments of the calls of
\* onSelectPrompt the last handler made.
VARIABLES selectorPrompts, filteredPrompts, searchQuery, selectorIsOpen,
          input, onSelectPromptCalls

\* The chat form: isLoading of the stream, the calls of sendMessage that
\* await stream.submit, what the handleSubmit that has just run saw and did,
\* and what the last step wrote with console.error.
VARIABLES isLoading, pendingSends, submitEvent, consoleError

managerVars == <<prompts, editingPrompt, isDialogOpen, editor, now>>
selectorVars == <<selectorPrompts, filteredPrompts, searchQuery,
                  selectorIsOpen, input, onSelectPromptCalls>>
pageVars == <<currentAgent, agentThreadIds, threadId, selectedSubAgent, todos,
              files, isLoadingThreadState, requests, created, accessToken>>
switcherVars == <<selectedAgent, isOpen>>
submitVars == <<isLoading, pendingSends, submitEvent, consoleError>>

\* The state of the components around the message list.
uiVars == <<managerVars, pageVars, switcherVars, selectorVars, submitVars>>

\* What the PromptManager does not touch.
besidesManager == <<chatVars, overlapVars, pageVars, switcherVars, selectorVars,
                   submitVars>>

\* What HomePage and AgentSwitcher do not touch.
besidesPage == <<chatVars, overlapVars, managerVars, selectorVars, submitVars>>

\* What PromptSelector and the chat input do not touch.
besidesSelector == <<chatVars, overlapVars, managerVars, pageVars, switcherVars>>

\* What the chat surface does not touch when the callback runs in one piece.
besidesChat == <<overlapVars, uiVars>>

vars == <<chatVars, overlapVars, uiVars>>

CallIds == 1..MaxCalls

NotCalled ==
    [state |-> "idle", snapshot |-> <<>>, i |-> 0, map |-> 0, used |-> 0,
     threw |-> FALSE, draws |-> <<>>]

ChatInit ==
    /\ messages = <<>>
    /\ processedMessages = reconcile(<<>>, <<>>)

OverlapInit ==
    /\ passes = [c \in CallIds |-> NotCalled]
    /\ messageMaps = [a \in 0..MaxCalls |-> <<>>]

(***************************************************************************)
(* PromptManager and its PromptEditor (components/PromptManager).          *)
(***************************************************************************)

\* A value that may be null: the empty sequence, or the value in a sequence.
Null == <<>>
Some(v) == <<v>>

\* The id of a prompt, a number; NoId for a record without id property.
NoId == <<>>
Id(n) == <<n>>

\* A text as typed into a field: core is what trim() returns, padded tells
\* whether there is white space around it.
Typed(core, padded) == [core |-> core, padded |-> padded]
trim(text) == text.core

PromptTemplate(id, name, description, content, category, tags) ==
    [id |-> Id(id), name |-> name, description |-> description,
     content |-> content, category |-> category, tags |-> tags,
     created_at |-> "2024-01", updated_at |-> "2024-01"]

\* loadPrompts: the three prompts set on mount.
mockPrompts ==
    << PromptTemplate(1, "Research Report", "Template for research reports",
                      "You are a research analyst. {topic}", "research",
                      <<"research", "report", "analysis">>),
       PromptTemplate(2, "Code Review", "Template for code reviews",
                      "Review the following code for {language}", "coding",
                      <<"code", "review", "quality">>),
       PromptTemplate(3, "Meeting Summary", "Template for meeting discussions",
                      "Summarize the meeting on {topic}", "general",
                      <<"meeting", "summary", "notes">>) >>

\* tags.join(", ") as the pieces between its commas; the empty string, which
\* the join of no tags is, has one empty piece.
joinTags(tags) ==
    IF tags = <<>>
    THEN <<Typed("", FALSE)>>
    ELSE [i \in 1..Len(tags) |-> Typed(tags[i], i > 1)]

IsNotEmptyString(t) == t # ""

\* tags.split(",").map(tag => tag.trim()).filter(tag => tag)
splitTags(text) ==
    SelectSeq([i \in 1..Len(text) |-> trim(text[i])], IsNotEmptyString)

\* The PromptEditor is not mounted while the dialog is closed.
NoEditor == Null

\* The useState initialisers of PromptEditor for the prompt it is given.
MountedEditor(prompt) ==
    IF prompt = Null
    THEN Some([name |-> Typed("", FALSE), description |-> Typed("", FALSE),
               content |-> Typed("", FALSE), category |-> "general",
               tags |-> <<Typed("", FALSE)>>])
    ELSE Some([name |-> Typed(prompt[1].name, FALSE),
               description |-> Typed(prompt[1].description, FALSE),
               content |-> Typed(prompt[1].content, FALSE),
               category |-> prompt[1].category,
               tags |-> joinTags(prompt[1].tags)])

\* The first value of Date.now() and the values the user may type.
FirstNow == 1000
TypedNames == {Typed("", TRUE), Typed("Plan", TRUE)}
TypedContents == {Typed("", FALSE), Typed("Plan for {goal}", FALSE)}
TypedDescriptions == {Typed("A plan", TRUE)}
TypedTags == {<<Typed("plan", FALSE), Typed("", TRUE), Typed("draft", TRUE)>>}
Categories == {"general", "writing"}

ManagerInit ==
    /\ prompts = mockPrompts
    /\ editingPrompt = Null
    /\ isDialogOpen = FALSE
    /\ editor = NoEditor
    /\ now = FirstNow

\* The clock at the next reading of Date.now(): time has passed.
Elapsed(n) == n + 1

\* handleEditPrompt, from the Edit button of a listed prompt.
handleEditPrompt(prompt) ==
    /\ ~isDialogOpen
    /\ editingPrompt' = Some(prompt)
    /\ isDialogOpen' = TRUE
    /\ editor' = MountedEditor(editingPrompt')
    /\ UNCHANGED <<prompts, now, besidesManager>>

\* onOpenChange={setIsDialogOpen}: the New Prompt trigger opens the dialog.
OpenDialog ==
    /\ ~isDialogOpen
    /\ isDialogOpen' = TRUE
    /\ editor' = MountedEditor(editingPrompt)
    /\ UNCHANGED <<prompts, editingPrompt, now, besidesManager>>

\* onOpenChange={setIsDialogOpen}: Escape, the close button or a click
\* outside closes the dialog.
DismissDialog ==
    /\ isDialogOpen
    /\ isDialogOpen' = FALSE
    /\ editor' = NoEditor
    /\ UNCHANGED <<prompts, editingPrompt, now, besidesManager>>

\* onCancel
onCancel ==
    /\ isDialogOpen
    /\ isDialogOpen' = FALSE
    /\ editingPrompt' = Null
    /\ editor' = NoEditor
    /\ UNCHANGED <<prompts, now, besidesManager>>

\* The onChange handlers of the fields of the editor.
TypeIntoEditor ==
    /\ isDialogOpen
    /\ \/ \E v \in TypedNames : editor' = Some([editor[1] EXCEPT !.name = v])
       \/ \E v \in TypedContents : editor' = Some([editor[1] EXCEPT !.content = v])
       \/ \E v \in TypedDescriptions :
              editor' = Some([editor[1] EXCEPT !.description = v])
       \/ \E v \in TypedTags : editor' = Some([editor[1] EXCEPT !.tags = v])
       \/ \E v \in Categories : editor' = Some([editor[1] EXCEPT !.category = v])
    /\ UNCHANGED <<prompts, editingPrompt, isDialogOpen, now, besidesManager>>

\* Whether handleSave goes on to onSave.
CanSave == trim(editor[1].name) # "" /\ trim(editor[1].content) # ""

\* The object handleSave hands to onSave: the five fields, and no id.
SavedFields ==
    [id |-> NoId, name |-> trim(editor[1].name),
     description |-> trim(editor[1].description),
     content |-> trim(editor[1].content), category |-> editor[1].category,
     tags |-> splitTags(editor[1].tags),
     created_at |-> Undefined, updated_at |-> Undefined]

\* prev.map(p => p.id === prompt.id ? prompt : p)
replacePrompt(prev, prompt) ==
    [i \in 1..Len(prev) |-> IF prev[i].id = prompt.id THEN prompt ELSE prev[i]]

\* handleSave with a blank name or content: alert(...) and return.
handleSaveRejected ==
    /\ isDialogOpen
    /\ ~CanSave
    /\ UNCHANGED <<managerVars, besidesManager>>

\* handleSave and the onSave of PromptManager.
handleSave ==
    /\ isDialogOpen
    /\ CanSave
    /\ IF editingPrompt # Null
       THEN /\ prompts' = replacePrompt(prompts, SavedFields)
            /\ now' = now
       ELSE /\ now < FirstNow + MaxCreated
            /\ prompts' = Append(prompts, [SavedFields EXCEPT !.id = Id(now)])
            /\ now' = Elapsed(now)
    /\ isDialogOpen' = FALSE
    /\ editingPrompt' = Null
    /\ editor' = NoEditor
    /\ UNCHANGED besidesManager

\* handleDeletePrompt, when window.confirm returns true.
handleDeletePrompt(promptId) ==
    /\ ~isDialogOpen
    /\ prompts' = SelectSeq(prompts, LAMBDA p : p.id # promptId)
    /\ UNCHANGED <<editingPrompt, isDialogOpen, editor, now, besidesManager>>

NextManager ==
    \/ \E i \in 1..Len(prompts) : handleEditPrompt(prompts[i])
    \/ OpenDialog
    \/ DismissDialog
    \/ onCancel
    \/ TypeIntoEditor
    \/ handleSaveRejected
    \/ handleSave
    \/ \E i \in 1..Len(prompts) : handleDeletePrompt(prompts[i].id)

(***************************************************************************)
(* HomePage (page.tsx) and AgentSwitcher.                                  *)
(***************************************************************************)

\* The keys of agentThreadIds.
Agents ==
    {"research_agent", "simple_agent", "coding_agent", "weaviate_agent",
     "n8n_agent"}

Agent(id, name, description) ==
    [id |-> id, name |-> name, description |-> description]

AVAILABLE_AGENTS ==
    << Agent("simple_agent", "Simple Agent", "Basic math and weather assistant"),
       Agent("research_agent", "Research Agent",
             "Advanced research with web search capabilities"),
       Agent("coding_agent", "Coding Agent",
             "Code assistance, debugging, and reviews") >>

\* A thread id that is null.
NullThread == "null"

\* The thread id of the URL on first load, when there is one, and the ids
\* of the threads the server creates, in the order of their creation.
UrlThread == "thread-url"
CreatedThreads == <<"thread-1", "thread-2", "thread-3", "thread-4">>
CreatedThread(n) == CreatedThreads[n]

\* AVAILABLE_AGENTS.find(a => a.id === agentId), Null for undefined.
findAgent(agentId) ==
    IF \E i \in 1..Len(AVAILABLE_AGENTS) : AVAILABLE_AGENTS[i].id = agentId
    THEN Some(AVAILABLE_AGENTS[CHOOSE i \in 1..Len(AVAILABLE_AGENTS) :
                                   AVAILABLE_AGENTS[i].id = agentId])
    ELSE Null

\* The effect of AgentSwitcher: setSelectedAgent(agent || AVAILABLE_AGENTS[0]).
switcherEffect(agentId) ==
    IF findAgent(agentId) # Null THEN findAgent(agentId)
    ELSE Some(AVAILABLE_AGENTS[1])

\* The first effect of HomePage: the threadId of the URL goes into the slot
\* of the current agent when that slot is empty.
urlEffect(ids, agent, urlThreadId) ==
    IF urlThreadId # NullThread /\ ids[agent] = NullThread
    THEN [ids EXCEPT ![agent] = urlThreadId]
    ELSE ids

\* What the server holds for a thread.
TodosOf(thread) == <<thread>>
FilesOf(thread) == {thread}
NoTodos == <<>>
NoFiles == {}

\* The requests in flight stay within the bound.
CanRequest(agent, thread) ==
    \/ [agent |-> agent, thread |-> thread] \in requests
    \/ Cardinality(requests) < MaxInFlight

\* Variant: the request is made whether or not there is an access token.
fetchEffectIgnoresToken(agent, thread, token, changed) ==
    IF ~changed
    THEN UNCHANGED <<todos, files, isLoadingThreadState, requests>>
    ELSE IF thread = NullThread
    THEN /\ todos' = NoTodos
         /\ files' = NoFiles
         /\ isLoadingThreadState' = FALSE
         /\ UNCHANGED requests
    ELSE /\ CanRequest(agent, thread)
         /\ isLoadingThreadState' = TRUE
         /\ requests' = requests \cup {[agent |-> agent, thread |-> thread]}
         /\ UNCHANGED <<todos, files>>

\* The second effect of HomePage, fetchThreadState, up to its await, for
\* the agent and the thread id of the render; and the access token of the render; it
\* runs when one of the three has changed.
fetchEffect(agent, thread, token, changed) ==
    IF ~changed
    THEN UNCHANGED <<todos, files, isLoadingThreadState, requests>>
    ELSE IF thread = NullThread \/ Falsy(token)
    THEN /\ todos' = NoTodos
         /\ files' = NoFiles
         /\ isLoadingThreadState' = FALSE
         /\ UNCHANGED requests
    ELSE /\ CanRequest(agent, thread)
         /\ isLoadingThreadState' = TRUE
         /\ requests' = requests \cup {[agent |-> agent, thread |-> thread]}
         /\ UNCHANGED <<todos, files>>

\* The same after a handler that has cleared todos and files.
fetchEffectAfterClear(agent, thread, token, changed) ==
    /\ todos' = NoTodos
    /\ files' = NoFiles
    /\ IF changed /\ thread # NullThread /\ ~Falsy(token)
       THEN /\ CanRequest(agent, thread)
            /\ isLoadingThreadState' = TRUE
            /\ requests' = requests \cup {[agent |-> agent, thread |-> thread]}
       ELSE /\ isLoadingThreadState' = (IF changed THEN FALSE ELSE isLoadingThreadState)
            /\ UNCHANGED requests

\* The page is loaded with the threadId of the URL, which may be null, and
\* the access token of the session, which may be missing; the
\* effects of the first render have run.
PageInit(urlThreadId, token) ==
    /\ currentAgent = "n8n_agent"
    /\ accessToken = token
    /\ threadId = urlThreadId
    /\ agentThreadIds = urlEffect([a \in Agents |-> NullThread], "n8n_agent", threadId)
    /\ selectedSubAgent = Null
    /\ todos = NoTodos
    /\ files = NoFiles
    /\ isLoadingThreadState = (threadId # NullThread /\ ~Falsy(accessToken))
    /\ requests = IF threadId = NullThread \/ Falsy(accessToken) THEN {}
                  ELSE {[agent |-> "n8n_agent", thread |-> threadId]}
    /\ created = 0

SwitcherInit ==
    /\ selectedAgent = switcherEffect(currentAgent)
    /\ isOpen = FALSE

toggleDropdown ==
    /\ isOpen' = ~isOpen
    /\ UNCHANGED <<selectedAgent, pageVars, besidesPage>>

\* handleAgentSelect of AgentSwitcher, which calls handleAgentChange of
\* HomePage, and the effects of the render that follows.
handleAgentSelect(agent) ==
    /\ isOpen
    /\ currentAgent' = agent.id
    /\ selectedSubAgent' = Null
    /\ isOpen' = FALSE
    /\ selectedAgent' = IF currentAgent' # currentAgent
                        THEN switcherEffect(currentAgent')
                        ELSE Some(agent)
    /\ agentThreadIds' = urlEffect(agentThreadIds, currentAgent', threadId)
    /\ fetchEffectAfterClear(currentAgent', agentThreadIds'[currentAgent'], accessToken,
                             currentAgent' # currentAgent)
    /\ UNCHANGED <<threadId, created, accessToken, besidesPage>>

\* handleNewThread; its button is disabled without a current thread id.
handleNewThread ==
    /\ agentThreadIds[currentAgent] # NullThread
    /\ agentThreadIds' = [agentThreadIds EXCEPT ![currentAgent] = NullThread]
    /\ threadId' = NullThread
    /\ selectedSubAgent' = Null
    /\ fetchEffectAfterClear(currentAgent, NullThread, accessToken, TRUE)
    /\ UNCHANGED <<currentAgent, created, accessToken, switcherVars, besidesPage>>

\* The threads the history sidebar lists.
ListedThreads == {UrlThread} \cup {CreatedThread(n) : n \in 1..created}

\* onThreadSelect of ThreadHistorySidebar.
onThreadSelect(thread) ==
    /\ agentThreadIds' = [agentThreadIds EXCEPT ![currentAgent] = thread]
    /\ threadId' = thread
    /\ fetchEffect(currentAgent, thread, accessToken,
                   thread # agentThreadIds[currentAgent])
    /\ UNCHANGED <<currentAgent, selectedSubAgent, created, accessToken, switcherVars,
                   besidesPage>>

\* setThreadId as ChatInterface gets it, called by the stream (onThreadId)
\* when the server has created a thread for a message sent without one.
onThreadId ==
    /\ agentThreadIds[currentAgent] = NullThread
    /\ created < MaxThreads
    /\ created' = created + 1
    /\ agentThreadIds' = [agentThreadIds EXCEPT ![currentAgent] = CreatedThread(created')]
    /\ threadId' = CreatedThread(created')
    /\ fetchEffect(currentAgent, CreatedThread(created'), accessToken, TRUE)
    /\ UNCHANGED <<currentAgent, selectedSubAgent, accessToken, switcherVars,
                   besidesPage>>

\* onTodosUpdate and onFilesUpdate, called by handleUpdateEvent for an
\* update event of the stream of the current thread whose node data has
\* todos and files.
onUpdateEvent ==
    /\ agentThreadIds[currentAgent] # NullThread
    /\ todos' = TodosOf(agentThreadIds[currentAgent])
    /\ files' = FilesOf(agentThreadIds[currentAgent])
    /\ UNCHANGED <<currentAgent, agentThreadIds, threadId, selectedSubAgent,
                   isLoadingThreadState, requests, created, accessToken, switcherVars,
                   besidesPage>>

\* client.threads.getState resolves: the values of the thread asked for
\* are shown, whatever the current thread is by now; values without todos
\* and files show as empty, and a state without values changes nothing.
getStateResolves(request) ==
    /\ request \in requests
    /\ requests' = requests \ {request}
    /\ \/ /\ todos' = TodosOf(request.thread)
          /\ files' = FilesOf(request.thread)
       \/ /\ todos' = NoTodos
          /\ files' = NoFiles
       \/ UNCHANGED <<todos, files>>
    /\ isLoadingThreadState' = FALSE
    /\ UNCHANGED <<currentAgent, agentThreadIds, threadId, selectedSubAgent,
                   created, accessToken, switcherVars, besidesPage>>

\* client.threads.getState rejects.
getStateRejects(request) ==
    /\ request \in requests
    /\ requests' = requests \ {request}
    /\ todos' = NoTodos
    /\ files' = NoFiles
    /\ isLoadingThreadState' = FALSE
    /\ UNCHANGED <<currentAgent, agentThreadIds, threadId, selectedSubAgent,
                   created, accessToken, switcherVars, besidesPage>>

\* onSelectSubAgent, for a sub-agent of a message of the current thread, and
\* onClose of SubAgentPanel.
setSelectedSubAgent ==
    /\ selectedSubAgent = Null => agentThreadIds[currentAgent] # NullThread
    /\ selectedSubAgent' = IF selectedSubAgent = Null THEN Some("sub-agent") ELSE Null
    /\ UNCHANGED <<currentAgent, agentThreadIds, threadId, todos, files,
                   isLoadingThreadState, requests, created, accessToken, switcherVars,
                   besidesPage>>

\* The access token of the session arrives (sign-in, refresh) or goes away
\* (sign-out, expiry); the second effect runs for the new one.
sessionChanges ==
    /\ accessToken' = IF Falsy(accessToken) THEN "token" ELSE Undefined
    /\ fetchEffect(currentAgent, agentThreadIds[currentAgent], accessToken', TRUE)
    /\ UNCHANGED <<currentAgent, agentThreadIds, threadId, selectedSubAgent,
                   created, switcherVars, besidesPage>>

NextPage ==
    \/ toggleDropdown
    \/ \E i \in 1..Len(AVAILABLE_AGENTS) : handleAgentSelect(AVAILABLE_AGENTS[i])
    \/ handleNewThread
    \/ \E thread \in ListedThreads : onThreadSelect(thread)
    \/ onThreadId
    \/ onUpdateEvent
    \/ \E request \in requests : getStateResolves(request)
    \/ \E request \in requests : getStateRejects(request)
    \/ setSelectedSubAgent
    \/ sessionChanges

(***************************************************************************)
(* PromptSelector, and the input of ChatInterface it fills.  The texts it  *)
(* searches are sequences of characters.                                   *)
(***************************************************************************)

UpperCase ==
    <<"A", "B", "C", "D", "E", "F", "G", "H", "I", "J", "K", "L", "M",
      "N", "O", "P", "Q", "R", "S", "T", "U", "V", "W", "X", "Y", "Z">>

LowerCase ==
    <<"a", "b", "c", "d", "e", "f", "g", "h", "i", "j", "k", "l", "m",
      "n", "o", "p", "q", "r", "s", "t", "u", "v", "w", "x", "y", "z">>

IsWhiteSpace(c) == c \in {" ", "\t", "\n"}

\* String.prototype.toLowerCase
toLowerCase(text) ==
    [i \in 1..Len(text) |->
        IF \E k \in 1..Len(UpperCase) : UpperCase[k] = text[i]
        THEN LowerCase[CHOOSE k \in 1..Len(UpperCase) : UpperCase[k] = text[i]]
        ELSE text[i]]

\* String.prototype.includes
includes(text, query) ==
    \E i \in 1..(Len(text) - Len(query) + 1) :
        SubSeq(text, i, i + Len(query) - 1) = query

\* String.prototype.trim
trimChars(text) ==
    LET kept == {i \in 1..Len(text) : ~IsWhiteSpace(text[i])}
    IN  IF kept = {} THEN <<>>
        ELSE SubSeq(text, CHOOSE i \in kept : \A j \in kept : i <= j,
                          CHOOSE i \in kept : \A j \in kept : j <= i)

\* The five prompts loadPrompts sets on mount.
ResearchReport ==
    [id |-> Id(1),
     name |-> <<"R", "e", "s", "e", "a", "r", "c", "h", " ", "R", "e", "p",
               "o", "r", "t">>,
     description |-> <<"T", "e", "m", "p", "l", "a", "t", "e", " ", "f", "o",
                      "r", " ", "c", "r", "e", "a", "t", "i", "n", "g", " ",
                      "c", "o", "m", "p", "r", "e", "h", "e", "n", "s", "i",
                      "v", "e", " ", "r", "e", "s", "e", "a", "r", "c", "h",
                      " ", "r", "e", "p", "o", "r", "t", "s">>,
     content |->
         <<"Y", "o", "u", " ", "a", "r", "e", " ", "a", " ", "r",
           "e", "s", "e", "a", "r", "c", "h", " ", "a", "n", "a",
           "l", "y", "s", "t", ".", " ", "C", "r", "e", "a", "t",
           "e", " ", "a", " ", "d", "e", "t", "a", "i", "l", "e",
           "d", " ", "r", "e", "p", "o", "r", "t", " ", "o", "n",
           " ", "{", "t", "o", "p", "i", "c", "}">>,
     category |-> "research",
     tags |-> <<<<"r", "e", "s", "e", "a", "r", "c", "h">>,
                         <<"r", "e", "p", "o", "r", "t">>,
                         <<"a", "n", "a", "l", "y", "s", "i", "s">>>>,
     created_at |-> "2024-01", updated_at |-> "2024-01"]

CodeReview ==
    [id |-> Id(2),
     name |-> <<"C", "o", "d", "e", " ", "R", "e", "v", "i", "e", "w">>,
     description |-> <<"T", "e", "m", "p", "l", "a", "t", "e", " ", "f", "o",
                      "r", " ", "c", "o", "n", "d", "u", "c", "t", "i", "n",
                      "g", " ", "t", "h", "o", "r", "o", "u", "g", "h", " ",
                      "c", "o", "d", "e", " ", "r", "e", "v", "i", "e", "w",
                      "s">>,
     content |->
         <<"R", "e", "v", "i", "e", "w", " ", "t", "h", "e", " ",
           "f", "o", "l", "l", "o", "w", "i", "n", "g", " ", "c",
           "o", "d", "e", " ", "f", "o", "r", " ", "{", "l", "a",
           "n", "g", "u", "a", "g", "e", "}">>,
     category |-> "coding",
     tags |-> <<<<"c", "o", "d", "e">>,
                         <<"r", "e", "v", "i", "e", "w">>,
                         <<"q", "u", "a", "l", "i", "t", "y">>>>,
     created_at |-> "2024-01", updated_at |-> "2024-01"]

MeetingSummary ==
    [id |-> Id(3),
     name |-> <<"M", "e", "e", "t", "i", "n", "g", " ", "S", "u", "m", "m",
               "a", "r", "y">>,
     description |-> <<"T", "e", "m", "p", "l", "a", "t", "e", " ", "f", "o",
                      "r", " ", "s", "u", "m", "m", "a", "r", "i", "z", "i",
                      "n", "g", " ", "m", "e", "e", "t", "i", "n", "g", " ",
                      "d", "i", "s", "c", "u", "s", "s", "i", "o", "n", "s">>,
     content |->
         <<"S", "u", "m", "m", "a", "r", "i", "z", "e", " ", "t",
           "h", "e", " ", "m", "e", "e", "t", "i", "n", "g", " ",
           "o", "n", " ", "{", "t", "o", "p", "i", "c", "}">>,
     category |-> "general",
     tags |-> <<<<"m", "e", "e", "t", "i", "n", "g">>,
                         <<"s", "u", "m", "m", "a", "r", "y">>,
                         <<"n", "o", "t", "e", "s">>>>,
     created_at |-> "2024-01", updated_at |-> "2024-01"]

DataAnalysis ==
    [id |-> Id(4),
     name |-> <<"D", "a", "t", "a", " ", "A", "n", "a", "l", "y", "s", "i",
               "s">>,
     description |-> <<"T", "e", "m", "p", "l", "a", "t", "e", " ", "f", "o",
                      "r", " ", "a", "n", "a", "l", "y", "z", "i", "n", "g",
                      " ", "d", "a", "t", "a", "s", "e", "t", "s", " ", "a",
                      "n", "d", " ", "g", "e", "n", "e", "r", "a", "t", "i",
                      "n", "g", " ", "i", "n", "s", "i", "g", "h", "t", "s">>,
     content |->
         <<"A", "n", "a", "l", "y", "z", "e", " ", "t", "h", "e",
           " ", "f", "o", "l", "l", "o", "w", "i", "n", "g", " ",
           "d", "a", "t", "a", "s", "e", "t", ":", " ", "{", "d",
           "a", "t", "a", "s", "e", "t", "}">>,
     category |-> "analysis",
     tags |-> <<<<"d", "a", "t", "a">>,
                         <<"a", "n", "a", "l", "y", "s", "i", "s">>,
                         <<"i", "n", "s", "i", "g", "h", "t", "s">>>>,
     created_at |-> "2024-01", updated_at |-> "2024-01"]

CreativeWriting ==
    [id |-> Id(5),
     name |-> <<"C", "r", "e", "a", "t", "i", "v", "e", " ", "W", "r", "i",
               "t", "i", "n", "g">>,
     description |-> <<"T", "e", "m", "p", "l", "a", "t", "e", " ", "f", "o",
                      "r", " ", "c", "r", "e", "a", "t", "i", "v", "e", " ",
                      "w", "r", "i", "t", "i", "n", "g", " ", "a", "n", "d",
                      " ", "s", "t", "o", "r", "y", "t", "e", "l", "l", "i",
                      "n", "g">>,
     content |->
         <<"W", "r", "i", "t", "e", " ", "a", " ", "c", "r", "e",
           "a", "t", "i", "v", "e", " ", "p", "i", "e", "c", "e",
           " ", "a", "b", "o", "u", "t", " ", "{", "t", "h", "e",
           "m", "e", "}", " ", "i", "n", " ", "t", "h", "e", " ",
           "s", "t", "y", "l", "e", " ", "o", "f", " ", "{", "s",
           "t", "y", "l", "e", "}", ".">>,
     category |-> "writing",
     tags |-> <<<<"c", "r", "e", "a", "t", "i", "v", "e">>,
                         <<"w", "r", "i", "t", "i", "n", "g">>,
                         <<"s", "t", "o", "r", "y">>>>,
     created_at |-> "2024-01", updated_at |-> "2024-01"]

selectorMockPrompts ==
    <<ResearchReport, CodeReview, MeetingSummary, DataAnalysis, CreativeWriting>>

\* The effect that filters, with the search of the query left as typed.
filterEffectCaseSensitive(allPrompts, query) ==
    LET matches(prompt) ==
            \/ includes(toLowerCase(prompt.name), query)
            \/ includes(toLowerCase(prompt.description), query)
            \/ \E t \in 1..Len(prompt.tags) :
                   includes(toLowerCase(prompt.tags[t]), query)
    IN  IF trimChars(query) = <<>> THEN allPrompts
        ELSE SelectSeq(allPrompts, matches)

\* The effect that filters the prompts by the search query.
filterEffect(allPrompts, query) ==
    LET matches(prompt) ==
            \/ includes(toLowerCase(prompt.name), toLowerCase(query))
            \/ includes(toLowerCase(prompt.description), toLowerCase(query))
            \/ \E t \in 1..Len(prompt.tags) :
                   includes(toLowerCase(prompt.tags[t]), toLowerCase(query))
    IN  IF trimChars(query) = <<>> THEN allPrompts
        ELSE SelectSeq(allPrompts, matches)

\* What is typed into the search box.
SearchQueries ==
    { <<>>,
      <<" ">>,
      <<"C", "o", "d", "e">>,
      <<"r", "e">>,
      <<"d", "a", "t", "a", " ", "a">>,
      <<"R", "E", "P", "O", "R", "T">>,
      <<"s", "t", "o", "r", "y", " ">>,
      <<"x", "y", "z">> }

\* What is typed into the chat input.
TypedInputs ==
    { <<>>,
      <<" ", " ">>,
      <<"h", "i">>,
      <<" ", "h", "i", " ", "y", "o", "u", "\n">> }

\* The state after the effects of the mount: the prompts are loaded and
\* filtered by the empty query.
SelectorInit ==
    /\ selectorPrompts = selectorMockPrompts
    /\ searchQuery = <<>>
    /\ filteredPrompts = filterEffect(selectorPrompts, searchQuery)
    /\ selectorIsOpen = FALSE
    /\ input = <<>>
    /\ onSelectPromptCalls = <<>>
    /\ isLoading = FALSE
    /\ pendingSends = <<>>
    /\ submitEvent = Null
    /\ consoleError = <<>>

\* A handler that is not handleSubmit and settles no call of sendMessage.
formAsItWas ==
    /\ submitEvent' = Null
    /\ consoleError' = <<>>
    /\ UNCHANGED <<isLoading, pendingSends>>

\* onOpenChange of the dialog of PromptSelector.
setIsOpen(open) ==
    /\ selectorIsOpen # open
    /\ selectorIsOpen' = open
    /\ onSelectPromptCalls' = <<>>
    /\ formAsItWas
    /\ UNCHANGED <<selectorPrompts, filteredPrompts, searchQuery, input,
                   besidesSelector>>

\* onChange of the search box, and the effect that filters.
setSearchQuery(query) ==
    /\ selectorIsOpen
    /\ searchQuery' = query
    /\ filteredPrompts' = filterEffect(selectorPrompts, searchQuery')
    /\ onSelectPromptCalls' = <<>>
    /\ formAsItWas
    /\ UNCHANGED <<selectorPrompts, selectorIsOpen, input, besidesSelector>>

\* handleSelectPrompt of PromptSelector for a prompt of the list shown; its
\* onSelectPrompt is handleSelectPrompt of ChatInterface; the effect that
\* filters runs for the query it has reset.
handleSelectPrompt(prompt) ==
    /\ selectorIsOpen
    /\ onSelectPromptCalls' = <<prompt>>
    /\ input' = prompt.content
    /\ selectorIsOpen' = FALSE
    /\ searchQuery' = <<>>
    /\ filteredPrompts' = filterEffect(selectorPrompts, searchQuery')
    /\ formAsItWas
    /\ UNCHANGED <<selectorPrompts, besidesSelector>>

\* onChange of the chat input, which is disabled while the stream loads.
setInput(text) ==
    /\ ~isLoading
    /\ input' = text
    /\ onSelectPromptCalls' = <<>>
    /\ formAsItWas
    /\ UNCHANGED <<selectorPrompts, filteredPrompts, searchQuery,
                   selectorIsOpen, besidesSelector>>

NextSelector ==
    \/ \E open \in BOOLEAN : setIsOpen(open)
    \/ \E query \in SearchQueries : setSearchQuery(query)
    \/ \E i \in 1..Len(filteredPrompts) : handleSelectPrompt(filteredPrompts[i])
    \/ \E text \in TypedInputs : setInput(text)

\* Variant of sendMessage without its try and catch: what stream.submit
\* throws leaves sendMessage.
sendMessageRethrows(submitOutcome) == submitOutcome

\* sendMessage of useChat awaits stream.submit in a try whose catch logs:
\* the promise it returns is fulfilled whatever becomes of stream.submit.
sendMessage(submitOutcome) ==
    IF submitOutcome = "rejected" THEN "fulfilled" ELSE submitOutcome

\* The form is submitted: handleSubmit runs up to its await.
handleSubmit ==
    LET messageText == trimChars(input)
        returnsEarly == messageText = <<>> \/ isLoading
        calls == IF returnsEarly THEN <<>> ELSE <<messageText>>
    IN  /\ submitEvent' = Some([input |-> input, isLoading |-> isLoading,
                                 pending |-> pendingSends, calls |-> calls])
        /\ pendingSends' = pendingSends \o calls
        /\ isLoading' = (isLoading \/ calls # <<>>)
        /\ consoleError' = <<>>
        /\ onSelectPromptCalls' = <<>>
        /\ UNCHANGED <<selectorPrompts, filteredPrompts, searchQuery,
                       selectorIsOpen, input, besidesSelector>>

\* stream.submit settles for the call of sendMessage that awaits it, the
\* stream stops loading, and handleSubmit goes on after its await.
submitSettles(submitOutcome) ==
    /\ pendingSends # <<>>
    /\ pendingSends' = Tail(pendingSends)
    /\ isLoading' = FALSE
    /\ consoleError' = IF submitOutcome = "rejected"
                       THEN <<"Error sending message:">>
                       ELSE <<>>
    /\ input' = IF sendMessage(submitOutcome) = "fulfilled" THEN <<>> ELSE input
    /\ submitEvent' = Null
    /\ onSelectPromptCalls' = <<>>
    /\ UNCHANGED <<selectorPrompts, filteredPrompts, searchQuery,
                   selectorIsOpen, besidesSelector>>

submitResolves == submitSettles("fulfilled")

submitRejects == submitSettles("rejected")

\* The Stop button, shown while the stream loads: the run is aborted and
\* stream.submit settles one way or the other.
stopStream ==
    /\ isLoading
    /\ \E submitOutcome \in {"fulfilled", "rejected"} : submitSettles(submitOutcome)

NextSubmit ==
    \/ \E open \in BOOLEAN : setIsOpen(open)
    \/ \E i \in 1..Len(filteredPrompts) : handleSelectPrompt(filteredPrompts[i])
    \/ \E text \in TypedInputs : setInput(text)
    \/ handleSubmit
    \/ submitResolves
    \/ submitRejects
    \/ stopStream

Init ==
    /\ ChatInit
    /\ OverlapInit
    /\ ManagerInit
    /\ PageInit(NullThread, "token")
    /\ SwitcherInit
    /\ SelectorInit

\* The page is loaded with or without a threadId in the URL.
PageLoaded ==
    /\ ChatInit
    /\ OverlapInit
    /\ ManagerInit
    /\ \E urlThreadId \in {NullThread, UrlThread}, token \in {Undefined, "token"} :
           PageInit(urlThreadId, token)
    /\ SwitcherInit
    /\ SelectorInit

IsTurnMessage(message) == message.type \in {"human", "ai"}

\* The fresh id of the next message.
NextId == MessageIds[Len(messages) + 1]

\* The stream hands over a messages array extended by one message; the
\* changed dependency makes useMemo run the callback during the render.
Deliver(message, bound) ==
    /\ Len(messages) < bound
    /\ ~processedMessages.threw
    /\ messages' = inputAfter(Append(messages, message))
    /\ \E draws \in Draws(messages') :
           processedMessages' = reconcile(messages', draws)
    /\ UNCHANGED besidesChat

HumanMessage(bound) ==
    \E t \in {"hi"} : Deliver(Message(NextId, "human", Text(t), Undefined), bound)

AiMessage(shapeSet, bound) ==
    \E shapes \in shapeSet : Deliver(Message(NextId, "ai", shapes, Undefined), bound)

ToolMessage(bound) ==
    \E r \in ToolResults : Deliver(Message(NextId, "tool", Text(r[2]), r[1]), bound)

SystemMessage(bound) ==
    \E t \in {"note"} : Deliver(Message(NextId, "system", Text(t), Undefined), bound)

\* A human or assistant message that carries the id of the first human or
\* assistant message of the thread once more.
RepeatedIdMessage(bound) ==
    /\ \E i \in 1..Len(messages) : IsTurnMessage(messages[i])
    /\ LET first == CHOOSE i \in 1..Len(messages) :
                        /\ IsTurnMessage(messages[i])
                        /\ \A j \in 1..(i - 1) : ~IsTurnMessage(messages[j])
       IN  \/ Deliver(Message(messages[first].id, "human", Text("hi again"),
                              Undefined), bound)
           \/ \E shapes \in RepeatedShapes :
                  Deliver(Message(messages[first].id, "ai", shapes, Undefined), bound)

\* A "values" event of the stream carries the whole state: the messages array
\* is a new one with the same content, and the callback runs again.
ValuesEvent ==
    /\ ~processedMessages.threw
    /\ messages' = inputAfter(messages)
    /\ \E draws \in Draws(messages) :
           processedMessages' = reconcile(messages, draws)
    /\ UNCHANGED besidesChat

\* Threads of well-formed messages.
Next ==
    \/ HumanMessage(MaxMessages)
    \/ AiMessage(ThreadShapes, MaxMessages)
    \/ ToolMessage(MaxMessages)
    \/ SystemMessage(MaxMessages)
    \/ RepeatedIdMessage(MaxMessages)
    \/ ValuesEvent

Spec == Init /\ [][Next]_vars

\* Shorter threads whose assistant messages take every shape.
NextShapes ==
    \/ HumanMessage(MaxShapedMessages)
    \/ AiMessage(AiShapes, MaxShapedMessages)
    \/ ToolMessage(MaxShapedMessages)
    \/ ValuesEvent

SpecShapes == Init /\ [][NextShapes]_vars

\* The same with assistant messages whose lists hold null entries.
NextMalformed ==
    \/ NextShapes
    \/ AiMessage(MalformedShapes, MaxShapedMessages)

SpecMalformed == Init /\ [][NextMalformed]_vars

(***************************************************************************)
(* Calls of the callback that overlap: every call is a sequence of steps,  *)
(* one per message of the array it was called with, and the steps of the   *)
(* calls in flight interleave.                                              *)
(***************************************************************************)

\* Variant: one Map, created outside the callback, serves every call.
NewMapShared(c) == 0

\* new Map() in the callback: a Map object of the call's own, at an address
\* that no other call has.
NewMap(c) == c

\* A message arrives; a call in flight keeps the array it was called with.
Arrive(message) ==
    /\ Len(messages) < MaxOverlapMessages
    /\ messages' = Append(messages, message)
    /\ UNCHANGED <<processedMessages, overlapVars, uiVars>>

\* The messages that arrive: an assistant message with two tool calls and
\* the result of the first of them.
ArriveAny ==
    \/ \E shapes \in RepeatedShapes :
           Arrive(Message(NextId, "ai", shapes, Undefined))
    \/ \E r \in {<<"t1", "result-x">>} :
           Arrive(Message(NextId, "tool", Text(r[2]), r[1]))

\* The callback is entered with the current messages: const messageMap =
\* new Map().  Calls are numbered in the order in which they start.
StartCall(c) ==
    /\ passes[c].state = "idle"
    /\ \A b \in 1..(c - 1) : passes[b].state # "idle"
    /\ \E draws \in Draws(messages) :
           passes' = [passes EXCEPT ![c] =
                        [NotCalled EXCEPT !.state = "running",
                                          !.snapshot = messages,
                                          !.i = 1,
                                          !.map = NewMap(c),
                                          !.draws = draws]]
    /\ UNCHANGED <<chatVars, messageMaps, uiVars>>

\* The state of the pass of a call, its Map read from the heap.
PassOf(c) ==
    [messageMap |-> messageMaps[passes[c].map], used |-> passes[c].used,
     threw |-> passes[c].threw]

\* One turn of messages.forEach in a call.
StepCall(c) ==
    /\ passes[c].state = "running"
    /\ passes[c].i <= Len(passes[c].snapshot)
    /\ ~passes[c].threw
    /\ LET after == forEachBody(PassOf(c), passes[c].snapshot[passes[c].i],
                                passes[c].draws)
       IN  /\ messageMaps' = [messageMaps EXCEPT ![passes[c].map] = after.messageMap]
           /\ passes' = [passes EXCEPT ![c].i = @ + 1,
                                     ![c].used = after.used,
                                     ![c].threw = after.threw]
    /\ UNCHANGED <<chatVars, uiVars>>

\* The call returns Array.from(messageMap.values()).map(...), and its
\* locals are gone; the render of the latest messages is the one that is
\* committed, the output for an array that has been replaced is dropped.
ReturnCall(c) ==
    /\ passes[c].state = "running"
    /\ passes[c].i > Len(passes[c].snapshot)
    /\ passes' = [passes EXCEPT ![c] =
                     [NotCalled EXCEPT !.state = "returned",
                                       !.map = passes[c].map]]
    /\ processedMessages' =
           IF passes[c].snapshot = messages
           THEN Outcome(PassOf(c))
           ELSE processedMessages
    /\ UNCHANGED <<messages, messageMaps, uiVars>>

\* A render in progress is given up for a newer one: the call never
\* returns, and what it has put into its Map stays where it is.
AbandonCall(c) ==
    /\ passes[c].state = "running"
    /\ passes' = [passes EXCEPT ![c] =
                     [NotCalled EXCEPT !.state = "abandoned",
                                       !.map = passes[c].map]]
    /\ UNCHANGED <<chatVars, messageMaps, uiVars>>

NextOverlap ==
    \/ ArriveAny
    \/ \E c \in CallIds : StartCall(c)
    \/ \E c \in CallIds : StepCall(c)
    \/ \E c \in CallIds : ReturnCall(c)
    \/ \E c \in CallIds : AbandonCall(c)

SpecOverlap == Init /\ [][NextOverlap]_vars

SpecManager == Init /\ [][NextManager]_vars

SpecPage == PageLoaded /\ [][NextPage]_vars

SpecSelector == Init /\ [][NextSelector]_vars

SpecSubmit == Init /\ [][NextSubmit]_vars

\* A getState request in flight settles: the promise of the HTTP request
\* resolves with the response or rejects with the error of the network.
getStateSettles ==
    \E request \in requests : getStateResolves(request) \/ getStateRejects(request)

\* What makes fetchThreadState run while the agent stays the one of the
\* first render, what fills todos and files, and what comes of the requests.
NextFetch ==
    \/ handleNewThread
    \/ onUpdateEvent
    \/ setSelectedSubAgent
    \/ \E thread \in ListedThreads : onThreadSelect(thread)
    \/ onThreadId
    \/ sessionChanges
    \/ \E request \in requests : getStateResolves(request)
    \/ \E request \in requests : getStateRejects(request)

SpecFetch == PageLoaded /\ [][NextFetch]_vars /\ WF_vars(getStateSettles)

TypeOK ==
    /\ Len(messages) <= MaxMessages
    /\ processedMessages.threw \in BOOLEAN
    /\ \E draws \in Draws(messages) : processedMessages = reconcile(messages, draws)

(***************************************************************************)
(* Properties.                                                             *)
(***************************************************************************)
Prefix(k) == SubSeq(messages, 1, k)

Last(msgs) == msgs[Len(msgs)]

\* The constraint of the input of reconcile: ids are unique within one input.
UniqueMessageIds(msgs) ==
    \A i, j \in 1..Len(msgs) : i # j => msgs[i].id # msgs[j].id

\* The ids of the tool calls of a sequence of turns.
TrackedIds(turns) ==
    UNION {{turns[i].toolCalls[j].id : j \in 1..Len(turns[i].toolCalls)} :
              i \in 1..Len(turns)}

\* Whether entry j of the turn was extracted from an invocation without id.
HasSyntheticId(turn, j) == Falsy(toolCallsInMessage(turn.message)[j].id)

\* Two outputs agree on everything but the generated ids.
SameButSyntheticIds(a, b) ==
    /\ a.threw = b.threw
    /\ Len(a.turns) = Len(b.turns)
    /\ \A i \in 1..Len(a.turns) :
         /\ a.turns[i].message = b.turns[i].message
         /\ a.turns[i].showAvatar = b.turns[i].showAvatar
         /\ Len(a.turns[i].toolCalls) = Len(b.turns[i].toolCalls)
         /\ \A j \in 1..Len(a.turns[i].toolCalls) :
              LET x == a.turns[i].toolCalls[j]
                  y == b.turns[i].toolCalls[j]
              IN  /\ x.name = y.name
                  /\ x.args = y.args
                  /\ x.status = y.status
                  /\ x.result = y.result
                  /\ ~HasSyntheticId(a.turns[i], j) => x.id = y.id

\* The outputs reconcile can give for the messages, one for every outcome
\* of its Math.random() calls.
Outputs(msgs) == {reconcile(msgs, d) : d \in Draws(msgs)}

\* C1 (as claimed): two calls of reconcile on the same messages yield
\* identical output, the ids of the tool calls included.
C1_Deterministic ==
    \A r1, r2 \in Outputs(messages) : r1 = r2

\* C1 (amended): two calls of reconcile on the same messages yield the same
\* turns in the same order and for every tool call the same name, arguments,
\* status and result, and the same id when the invocation carries an id;
\* only the ids generated for invocations without id may differ.
C1_DeterministicButSyntheticIds ==
    \A outputs \in {Outputs(messages)} :
        /\ processedMessages \in outputs
        /\ \A r1, r2 \in outputs : SameButSyntheticIds(r1, r2)

\* Two calls on one input differ, in a thread with a completed tool call.
C1_Witness ==
    /\ \E r1, r2 \in Outputs(messages) : r1 # r2
    /\ \E i \in 1..Len(processedMessages.turns) :
         \E j \in 1..Len(processedMessages.turns[i].toolCalls) :
             processedMessages.turns[i].toolCalls[j].status = "completed"

\* Every tool call completed in the turns before is completed in the turns
\* after, at the same place of the same turn.
StaysCompleted(before, after) ==
    \A i \in 1..Len(before) :
      \A j \in 1..Len(before[i].toolCalls) :
        before[i].toolCalls[j].status = "completed" =>
          /\ i <= Len(after)
          /\ after[i].message.id = before[i].message.id
          /\ j <= Len(after[i].toolCalls)
          /\ after[i].toolCalls[j].status = "completed"

\* C2: under the input constraint (unique message ids), a tool call that is
\* completed in the output for a prefix of the messages is completed in the
\* output for the messages, whatever was appended.
C2_CompletedStaysCompleted ==
    UniqueMessageIds(messages) =>
        \A outputs \in {Outputs(messages)} :
          \A k \in 0..Len(messages) :
            \A before \in Outputs(Prefix(k)) :
              \A after \in outputs :
                StaysCompleted(before.turns, after.turns)

\* A tool call was completed and another message has arrived since.
C2_Witness ==
    /\ UniqueMessageIds(messages)
    /\ Len(messages) >= 3
    /\ \E before \in Outputs(Prefix(Len(messages) - 1)) :
         \E i \in 1..Len(before.turns) :
           \E j \in 1..Len(before.turns[i].toolCalls) :
             before.turns[i].toolCalls[j].status = "completed"

\* C3: appending a tool message whose tool_call_id is the id of no tool call
\* tracked so far leaves the output as it is (both passes seeing the same
\* Math.random() values): no new turn, no status change, no error.
C3_OrphanDropped ==
    (/\ messages # <<>>
     /\ Last(messages).type = "tool") =>
        \A d \in Draws(messages) :
          \A before \in {reconcile(Prefix(Len(messages) - 1), d)} :
            Last(messages).tool_call_id \notin TrackedIds(before.turns) =>
              \A after \in {reconcile(messages, d)} :
                  /\ after = before
                  /\ ~after.threw

\* An orphan has arrived in a thread that has a completed and a pending call.
C3_Witness ==
    /\ messages # <<>>
    /\ Last(messages).type = "tool"
    /\ Last(messages).tool_call_id = "t-nonexistent"
    /\ \E i \in 1..Len(processedMessages.turns) :
         \E j, k \in 1..Len(processedMessages.turns[i].toolCalls) :
             /\ processedMessages.turns[i].toolCalls[j].status = "completed"
             /\ processedMessages.turns[i].toolCalls[k].status = "pending"

\* The place of the first tool call with the id: the first turn that has
\* one, and the first such call of that turn.
IsFirstMatch(turns, i, j, id) ==
    /\ turns[i].toolCalls[j].id = id
    /\ \A k \in 1..(j - 1) : turns[i].toolCalls[k].id # id
    /\ \A h \in 1..(i - 1) : \A k \in 1..Len(turns[h].toolCalls) :
           turns[h].toolCalls[k].id # id

\* C4: appending a tool message whose tool_call_id is the id of a tracked
\* tool call sets the first such call, in insertion order of the turns, to
\* completed with the text of the tool message as result; every other tool
\* call and every turn's message is unchanged and no turn is added.
C4_FoldsIntoFirstMatch ==
    (/\ messages # <<>>
     /\ Last(messages).type = "tool") =>
        \A d \in Draws(messages) :
          \A before \in {reconcile(Prefix(Len(messages) - 1), d).turns} :
            Last(messages).tool_call_id \in TrackedIds(before) =>
              \A after \in {reconcile(messages, d).turns} :
                  /\ Len(after) = Len(before)
                  /\ \A i \in 1..Len(before) :
                       /\ after[i].message = before[i].message
                       /\ after[i].showAvatar = before[i].showAvatar
                       /\ Len(after[i].toolCalls) = Len(before[i].toolCalls)
                       /\ \A j \in 1..Len(before[i].toolCalls) :
                            after[i].toolCalls[j] =
                              IF IsFirstMatch(before, i, j, Last(messages).tool_call_id)
                              THEN [before[i].toolCalls[j] EXCEPT
                                      !.status = "completed",
                                      !.result = [defined |-> TRUE,
                                                  text |-> Last(messages).content.text]]
                              ELSE before[i].toolCalls[j]

\* A result has arrived for an id that two turns use, and has completed a
\* pending call.
C4_Witness ==
    /\ Len(messages) >= 3
    /\ Last(messages).type = "tool"
    /\ Len(processedMessages.turns) = 2
    /\ \E j \in 1..Len(processedMessages.turns[1].toolCalls) :
         /\ processedMessages.turns[1].toolCalls[j].id = Last(messages).tool_call_id
         /\ processedMessages.turns[1].toolCalls[j].status = "completed"
         /\ processedMessages.turns[1].toolCalls[j].result.text = <<"result-x">>
    /\ \E j \in 1..Len(processedMessages.turns[2].toolCalls) :
         /\ processedMessages.turns[2].toolCalls[j].id = Last(messages).tool_call_id
         /\ processedMessages.turns[2].toolCalls[j].status = "pending"

\* The entries of one shape, as the claims describe them.
FlatEntries(message) ==
    SelectSeq(message.tool_calls.items, LAMBDA toolCall : toolCall.name # "")
ToolUseBlocks(message) ==
    SelectSeq(message.content.items, LAMBDA block : block.type = "tool_use")

\* The tool calls of a turn are the given entries, one for one and in order.
ComesFrom(toolCalls, entries) ==
    /\ Len(toolCalls) = Len(entries)
    /\ \A j \in 1..Len(entries) :
         /\ toolCalls[j].name = ToolCallName(entries[j])
         /\ toolCalls[j].args = ToolCallArgs(entries[j])
         /\ IF Falsy(entries[j].id)
            THEN toolCalls[j].id \in SyntheticIds
            ELSE toolCalls[j].id = entries[j].id

AiTurns == {i \in 1..Len(processedMessages.turns) :
               processedMessages.turns[i].message.type = "ai"}

\* C5: the tool calls of an assistant turn come from exactly one shape, the
\* first in the order nested, flat, tool_use blocks whose field is an array;
\* with a nested and a flat list both present only the nested calls appear.
C5_ShapePriority ==
    \A i \in AiTurns :
        LET turn == processedMessages.turns[i]
            message == turn.message
            nested == message.additional_kwargs
        IN  IF nested.defined /\ nested.tool_calls.tag = "array"
            THEN ComesFrom(turn.toolCalls, nested.tool_calls.items)
            ELSE IF message.tool_calls.tag = "array"
            THEN ComesFrom(turn.toolCalls, FlatEntries(message))
            ELSE IF message.content.tag = "array"
            THEN ComesFrom(turn.toolCalls, ToolUseBlocks(message))
            ELSE turn.toolCalls = <<>>

\* A turn of a message that has a nested and a flat list, both with entries.
C5_Witness ==
    \E i \in AiTurns :
        LET message == processedMessages.turns[i].message
        IN  /\ message.additional_kwargs.defined
            /\ message.additional_kwargs.tool_calls.tag = "array"
            /\ message.additional_kwargs.tool_calls.items # <<>>
            /\ message.tool_calls.tag = "array"
            /\ message.tool_calls.items # <<>>
            /\ Len(processedMessages.turns[i].toolCalls) = 3

\* C6 (as claimed): the pass never raises, whatever the messages hold.
C6_NeverThrows == ~processedMessages.threw

\* C7: under the input constraint (unique message ids) the turns are the
\* human and assistant messages, one turn each, in their order of arrival;
\* tool messages give no turn and no messages give no turns.
C7_TurnsInArrivalOrder ==
    UniqueMessageIds(messages) =>
        /\ ~processedMessages.threw
        /\ [i \in 1..Len(processedMessages.turns) |->
               processedMessages.turns[i].message]
             = SelectSeq(messages, IsTurnMessage)

\* Three messages, one of them a tool message, give two turns.
C7_Witness ==
    /\ UniqueMessageIds(messages)
    /\ Len(messages) = 3
    /\ messages[2].type = "tool"
    /\ Len(processedMessages.turns) = 2
    /\ processedMessages.turns[1].message.type # processedMessages.turns[2].message.type

OnlyHuman(msgs) == \A i \in 1..Len(msgs) : msgs[i].type = "human"

\* C8: for human messages only (with unique ids) there are as many turns as
\* messages and every turn has an empty list of tool calls.
C8_HumanOnly ==
    (OnlyHuman(messages) /\ UniqueMessageIds(messages)) =>
        /\ Len(processedMessages.turns) = Len(messages)
        /\ \A i \in 1..Len(processedMessages.turns) :
               processedMessages.turns[i].toolCalls = <<>>

C8_Witness ==
    /\ OnlyHuman(messages)
    /\ UniqueMessageIds(messages)
    /\ Len(messages) = 3
    /\ Len(processedMessages.turns) = 3

\* C9: showAvatar is true for the first turn and for a later turn exactly
\* when its message type differs from that of the turn before it; the tool
\* messages between two turns play no part.
C9_ShowAvatar ==
    \A i \in 1..Len(processedMessages.turns) :
        processedMessages.turns[i].showAvatar =
            (\/ i = 1
             \/ processedMessages.turns[i].message.type #
                    processedMessages.turns[i - 1].message.type)

\* Two assistant turns with a tool message between them.
C9_Witness ==
    /\ Len(messages) = 3
    /\ messages[1].type = "ai"
    /\ messages[2].type = "tool"
    /\ Len(processedMessages.turns) = 2
    /\ processedMessages.turns[1].showAvatar
    /\ ~processedMessages.turns[2].showAvatar

\* The first of the values that is neither undefined nor the empty string.
FirstPresent(a, b, default) ==
    IF ~Falsy(a) THEN a ELSE IF ~Falsy(b) THEN b ELSE default

\* The tool calls of a turn keep the number and the order of the extracted
\* invocations, and are pending when no message has followed.
KeepsInvocations(turn) ==
    LET entries == toolCallsInMessage(turn.message)
    IN  /\ Len(turn.toolCalls) = Len(entries)
        /\ \A j \in 1..Len(entries) :
             /\ ~Falsy(entries[j].id) => turn.toolCalls[j].id = entries[j].id
             /\ turn.toolCalls[j].status \in {"pending", "completed"}
             /\ turn.message = Last(messages) =>
                    /\ turn.toolCalls[j].status = "pending"
                    /\ ~turn.toolCalls[j].result.defined

\* C10 (as claimed): the name is the name field, else the type, else
\* "unknown"; the arguments are the args field, else the input field, else
\* the empty mapping; status pending, order and number preserved.
C10_FallbackChains ==
    \A i \in AiTurns :
        LET turn == processedMessages.turns[i]
            entries == toolCallsInMessage(turn.message)
        IN  /\ KeepsInvocations(turn)
            /\ \A j \in 1..Len(entries) :
                 /\ turn.toolCalls[j].name =
                        FirstPresent(entries[j].name, entries[j].type, "unknown")
                 /\ turn.toolCalls[j].args =
                        FirstPresent(entries[j].args, entries[j].input, EmptyMapping)

\* C10 (amended): function.name and function.arguments of the invocation
\* come first in the chains: the name is function.name, else name, else
\* type, else "unknown"; the arguments are function.arguments, else args,
\* else input, else the empty mapping ("else" when undefined or empty).
C10_FallbackChainsWithFunction ==
    \A i \in AiTurns :
        LET turn == processedMessages.turns[i]
            entries == toolCallsInMessage(turn.message)
        IN  /\ KeepsInvocations(turn)
            /\ \A j \in 1..Len(entries) :
                 LET fn == entries[j].function
                 IN  /\ turn.toolCalls[j].name =
                          IF fn.defined /\ ~Falsy(fn.name) THEN fn.name
                          ELSE FirstPresent(entries[j].name, entries[j].type,
                                            "unknown")
                     /\ turn.toolCalls[j].args =
                          IF fn.defined /\ ~Falsy(fn.arguments) THEN fn.arguments
                          ELSE FirstPresent(entries[j].args, entries[j].input,
                                            EmptyMapping)

\* Two turns that show every link of the two chains.
C10_Witness ==
    /\ \E i \in AiTurns :
         LET calls == processedMessages.turns[i].toolCalls
         IN  /\ Len(calls) = 3
             /\ calls[1].name = "search" /\ calls[1].args = "{\"q\":\"x\"}"
             /\ calls[2].name = "calc" /\ calls[2].args = "{\"n\":1}"
             /\ calls[3].name = "function" /\ calls[3].args = EmptyMapping
    /\ \E i \in AiTurns :
         LET calls == processedMessages.turns[i].toolCalls
         IN  /\ Len(calls) = 3
             /\ calls[1].name = "search" /\ calls[1].args = "{q:x}"
             /\ calls[2].name = "unknown" /\ calls[2].args = EmptyMapping
             /\ calls[3].name = "tool_call" /\ calls[3].args = "{i:1}"
             /\ \A j \in 1..3 : calls[j].status = "pending"

\* C11 (as claimed): no two tool calls of one turn share an id.
C11_UniqueIdsWithinTurn ==
    \A i \in 1..Len(processedMessages.turns) :
        \A j, k \in 1..Len(processedMessages.turns[i].toolCalls) :
            j # k => processedMessages.turns[i].toolCalls[j].id #
                         processedMessages.turns[i].toolCalls[k].id

Without(msgs, k) == SubSeq(msgs, 1, k - 1) \o SubSeq(msgs, k + 1, Len(msgs))

IsUnknownRole(message) == message.type \notin {"human", "ai", "tool"}

\* C13: a message whose type is none of human, ai and tool is skipped: the
\* pass does not raise and its output is the output for the messages without
\* that message (no turn added, no tool call changed).
C13_UnknownRoleSkipped ==
    \A k \in 1..Len(messages) :
        IsUnknownRole(messages[k]) =>
            \A d \in Draws(messages) :
              \A with \in {reconcile(messages, d)} :
                  /\ ~with.threw
                  /\ with = reconcile(Without(messages, k), d)

\* A system message stands between an assistant message and the tool
\* message that completes one of its calls.
C13_Witness ==
    /\ Len(messages) = 3
    /\ messages[1].type = "ai"
    /\ IsUnknownRole(messages[2])
    /\ messages[3].type = "tool"
    /\ Len(processedMessages.turns) = 1
    /\ \E j \in 1..Len(processedMessages.turns[1].toolCalls) :
           processedMessages.turns[1].toolCalls[j].status = "completed"

\* The work of a call in flight is that of a call that runs alone on the
\* same messages with the same Math.random() values.
RunsAsAlone(c) ==
    passes[c].state = "running" =>
        \A alone \in {forEach(SubSeq(passes[c].snapshot, 1, passes[c].i - 1), 1,
                              EmptyPass, passes[c].draws)} :
            /\ messageMaps[passes[c].map] = alone.messageMap
            /\ passes[c].used = alone.used
            /\ passes[c].threw = alone.threw

\* C14: calls that overlap are independent: no two calls have the same Map;
\* at every step the work of every call in flight is that of a call that
\* runs alone on its snapshot, whatever the other calls do and whatever
\* calls that were given up have left behind, so the output it returns is
\* that of the lone call; and the output in use is that of a lone call on a
\* snapshot, the latest one once the call on it has returned.
C14_OverlappingCallsIndependent ==
    /\ \A c, b \in CallIds :
         (c # b /\ passes[c].state # "idle" /\ passes[b].state # "idle")
             => passes[c].map # passes[b].map
    /\ \A c \in CallIds : RunsAsAlone(c)
    /\ \A c \in CallIds :
         passes[c].state = "running" =>
             passes[c].snapshot = Prefix(Len(passes[c].snapshot))
    /\ \E k \in 0..Len(messages) : processedMessages \in Outputs(Prefix(k))

\* The first call was given up after it had entered a turn into its Map,
\* the second is in flight on the same messages and has done the same, and
\* the third has returned the output for the extended messages, in which a
\* tool call is completed.
C14_Witness ==
    /\ passes[1].state = "abandoned"
    /\ Len(messageMaps[passes[1].map]) = 1
    /\ passes[2].state = "running" /\ passes[2].i = 2
    /\ Len(passes[2].snapshot) = 1
    /\ Len(messageMaps[passes[2].map]) = 1
    /\ passes[3].state = "returned"
    /\ Len(messages) = 2
    /\ messages[2].type = "tool"
    /\ Len(processedMessages.turns) = 1
    /\ \E j \in 1..Len(processedMessages.turns[1].toolCalls) :
           processedMessages.turns[1].toolCalls[j].status = "completed"

\* C15: a shape is taken as soon as its field is an array: a turn has no
\* tool calls when the nested list of its message is an empty array, and
\* when, without an array in the nested place, the flat list is an array
\* that is empty or holds only entries with an empty name, whatever the
\* flat list or the content blocks of the message hold.
C15_EmptyListSelected ==
    \A i \in AiTurns :
        LET turn == processedMessages.turns[i]
            message == turn.message
            nested == message.additional_kwargs
            hasNested == nested.defined /\ nested.tool_calls.tag = "array"
        IN  /\ (hasNested /\ nested.tool_calls.items = <<>>)
                   => turn.toolCalls = <<>>
            /\ (/\ ~hasNested
                 /\ message.tool_calls.tag = "array"
                 /\ \A j \in 1..Len(message.tool_calls.items) :
                        message.tool_calls.items[j].name = "")
                   => turn.toolCalls = <<>>

\* A turn without tool calls whose message has an empty nested list, a flat
\* list with an entry and a tool_use block, and another whose flat list is
\* empty after filtering while its content has a tool_use block.
C15_Witness ==
    /\ \E i \in AiTurns :
         LET message == processedMessages.turns[i].message
         IN  /\ message.additional_kwargs.defined
             /\ message.additional_kwargs.tool_calls = List(<<>>)
             /\ FlatEntries(message) # <<>>
             /\ ToolUseBlocks(message) # <<>>
             /\ processedMessages.turns[i].toolCalls = <<>>
    /\ \E i \in AiTurns :
         LET message == processedMessages.turns[i].message
         IN  /\ ~message.additional_kwargs.defined
             /\ message.tool_calls.tag = "array"
             /\ message.tool_calls.items # <<>>
             /\ FlatEntries(message) = <<>>
             /\ ToolUseBlocks(message) # <<>>
             /\ processedMessages.turns[i].toolCalls = <<>>

\* The tool calls are made of the entries at the kept positions of the
\* list, one for one and in the order of the list.
MadeOfKept(toolCalls, items, kept) ==
    /\ Len(toolCalls) = Cardinality(kept)
    /\ \A k \in kept :
         LET j == Cardinality({h \in kept : h <= k})
         IN  /\ toolCalls[j].name = ToolCallName(items[k])
             /\ toolCalls[j].args = ToolCallArgs(items[k])
             /\ ~Falsy(items[k].id) => toolCalls[j].id = items[k].id
             /\ Falsy(items[k].id) => toolCalls[j].id \in SyntheticIds

\* C16: when the flat list is the shape used, the entries whose name is the
\* empty string are left out and the others keep their order; the entries
\* of a nested list are all taken, and of the content blocks all those of
\* type tool_use, whatever their name.
C16_FlatFilteredByName ==
    \A i \in AiTurns :
        LET turn == processedMessages.turns[i]
            message == turn.message
            flat == message.tool_calls.items
            nested == NestedToolCalls(message).items
            blocks == message.content.items
        IN  CASE SelectedShape(message) = "flat" ->
                   MadeOfKept(turn.toolCalls, flat,
                              {k \in 1..Len(flat) : flat[k].name # ""})
              [] SelectedShape(message) = "nested" ->
                   MadeOfKept(turn.toolCalls, nested, 1..Len(nested))
              [] SelectedShape(message) = "content" ->
                   MadeOfKept(turn.toolCalls, blocks,
                              {k \in 1..Len(blocks) : blocks[k].type = "tool_use"})
              [] OTHER -> turn.toolCalls = <<>>

\* A turn made of a flat list that loses an entry with an empty name between
\* two that stay, and a turn made of a nested list that keeps such an entry.
C16_Witness ==
    /\ \E i \in AiTurns :
         LET message == processedMessages.turns[i].message
         IN  /\ SelectedShape(message) = "flat"
             /\ Len(message.tool_calls.items) = 4
             /\ message.tool_calls.items[2].name = ""
             /\ Len(processedMessages.turns[i].toolCalls) = 3
             /\ processedMessages.turns[i].toolCalls[1].name = "search"
             /\ processedMessages.turns[i].toolCalls[3].name = "tool_call"
    /\ \E i \in AiTurns :
         LET message == processedMessages.turns[i].message
         IN  /\ SelectedShape(message) = "nested"
             /\ \E k \in 1..Len(NestedToolCalls(message).items) :
                    NestedToolCalls(message).items[k].name = ""
             /\ Len(processedMessages.turns[i].toolCalls) =
                    Len(NestedToolCalls(message).items)

\* No id occurs on two tool calls of the turns.
DistinctToolCallIds(turns) ==
    \A i, h \in 1..Len(turns) :
        \A j \in 1..Len(turns[i].toolCalls) :
            \A k \in 1..Len(turns[h].toolCalls) :
                turns[i].toolCalls[j].id = turns[h].toolCalls[k].id
                    => (i = h /\ j = k)

\* The positions of the tool messages with the tool_call_id that stand
\* after the message with the given id.
ResultsAfter(messageId, toolCallId) ==
    {k \in 1..Len(messages) :
        /\ messages[k].type = "tool"
        /\ messages[k].tool_call_id = toolCallId
        /\ \E p \in 1..(k - 1) : messages[p].id = messageId}

\* C17: with unique message ids and pairwise distinct tool-call ids, a tool
\* call is completed exactly when a tool message with its id stands after
\* the assistant message of the call; a tool message with its id that
\* stands before that message does not complete it.
C17_CompletedIffResultAfter ==
    (UniqueMessageIds(messages) /\ DistinctToolCallIds(processedMessages.turns)) =>
        \A i \in 1..Len(processedMessages.turns) :
            LET turn == processedMessages.turns[i]
            IN  \A j \in 1..Len(turn.toolCalls) :
                    (turn.toolCalls[j].status = "completed")
                        <=> (ResultsAfter(turn.message.id, turn.toolCalls[j].id) # {})

\* The result of one call stands before the assistant message and that of
\* another after it: the first call is pending, the second completed.
C17_Witness ==
    /\ Len(messages) = 3
    /\ messages[1].type = "tool" /\ messages[1].tool_call_id = "t1"
    /\ messages[2].type = "ai"
    /\ messages[3].type = "tool" /\ messages[3].tool_call_id = "t2"
    /\ DistinctToolCallIds(processedMessages.turns)
    /\ Len(processedMessages.turns) = 1
    /\ \E j, k \in 1..Len(processedMessages.turns[1].toolCalls) :
         /\ processedMessages.turns[1].toolCalls[j].id = "t1"
         /\ processedMessages.turns[1].toolCalls[j].status = "pending"
         /\ processedMessages.turns[1].toolCalls[k].id = "t2"
         /\ processedMessages.turns[1].toolCalls[k].status = "completed"

\* The prompt has the fields of the editor, trimmed.
HasEditedFields(prompt) ==
    /\ prompt.name = trim(editor[1].name)
    /\ prompt.description = trim(editor[1].description)
    /\ prompt.content = trim(editor[1].content)
    /\ prompt.category = editor[1].category
    /\ prompt.tags = splitTags(editor[1].tags)

\* C18 (as claimed): a save while a prompt is being edited replaces the
\* prompt with that id by the edited fields and leaves the number of
\* prompts and every other prompt as they are; a save while no prompt is
\* being edited appends one prompt; either way the dialog closes and
\* editingPrompt becomes null.
C18_SaveReplacesOrAppends ==
    [][handleSave =>
          /\ ~isDialogOpen'
          /\ editingPrompt' = Null
          /\ IF editingPrompt # Null
             THEN /\ Len(prompts') = Len(prompts)
                  /\ \A i \in 1..Len(prompts) :
                       IF prompts[i].id = editingPrompt[1].id
                       THEN /\ prompts'[i].id = editingPrompt[1].id
                            /\ HasEditedFields(prompts'[i])
                       ELSE prompts'[i] = prompts[i]
             ELSE /\ Len(prompts') = Len(prompts) + 1
                  /\ SubSeq(prompts', 1, Len(prompts)) = prompts
                  /\ HasEditedFields(prompts'[Len(prompts')])]_vars

\* C19 (as claimed): the agent the switcher shows as selected is the
\* current agent of the page.
C19_SelectedAgentIsCurrent ==
    /\ selectedAgent # Null
    /\ \A agent \in {selectedAgent[i] : i \in 1..Len(selectedAgent)} :
           agent.id = currentAgent

\* Two characters are the same letter, whatever their case.
SameLetter(a, b) ==
    \/ a = b
    \/ \E k \in 1..Len(UpperCase) : {a, b} = {UpperCase[k], LowerCase[k]}

\* The query stands somewhere in the text, letter by letter whatever the case.
ContainsIgnoringCase(text, query) ==
    \E offset \in 0..(Len(text) - Len(query)) :
        \A k \in 1..Len(query) : SameLetter(text[offset + k], query[k])

IsBlank(query) == \A k \in 1..Len(query) : IsWhiteSpace(query[k])

FoundBy(prompt) ==
    \/ ContainsIgnoringCase(prompt.name, searchQuery)
    \/ ContainsIgnoringCase(prompt.description, searchQuery)
    \/ \E tag \in {prompt.tags[t] : t \in 1..Len(prompt.tags)} :
           ContainsIgnoringCase(tag, searchQuery)

C21_ThreadIdsKeptPerAgent ==
    [][/\ (\E i \in 1..Len(AVAILABLE_AGENTS) : handleAgentSelect(AVAILABLE_AGENTS[i]))
           => agentThreadIds' = agentThreadIds
       /\ (handleNewThread \/ \E thread \in ListedThreads : onThreadSelect(thread))
           => \A agent \in Agents \ {currentAgent} :
                  agentThreadIds'[agent] = agentThreadIds[agent]]_vars

\* C22 (as claimed): two agents never hold the same thread id.
C22_NoThreadInTwoSlots ==
    \A a, b \in Agents :
        a # b /\ agentThreadIds[a] # NullThread
            => agentThreadIds[a] # agentThreadIds[b]

\* The tool call is the first one with its id, in the order of the turns and
\* of the tool calls of a turn.
IsFirstWithId(turns, i, j) ==
    /\ \A h \in 1..(i - 1) : findIndex(turns[h].toolCalls, turns[i].toolCalls[j].id) = 0
    /\ findIndex(turns[i].toolCalls, turns[i].toolCalls[j].id) = j

Latest(positions) == CHOOSE k \in positions : \A l \in positions : l <= k

\* C23: with unique message ids, when one or several tool messages with the
\* same tool_call_id stand after the assistant message of the first tool
\* call with that id, that call is completed and its result is the text of
\* the last of these tool messages.
C23_LastResultWins ==
    UniqueMessageIds(messages) =>
        \A i \in 1..Len(processedMessages.turns) :
            LET turn == processedMessages.turns[i]
            IN  \A j \in 1..Len(turn.toolCalls) :
                    \A after \in {ResultsAfter(turn.message.id, turn.toolCalls[j].id)} :
                        (IsFirstWithId(processedMessages.turns, i, j) /\ after # {}) =>
                            /\ turn.toolCalls[j].status = "completed"
                            /\ turn.toolCalls[j].result.defined
                            /\ turn.toolCalls[j].result.text =
                                   extractStringFromMessageContent(messages[Latest(after)])

\* Two tool messages with the id t1 and different texts follow the
\* assistant message; the call shows the text of the second.
C23_Witness ==
    /\ Len(messages) = 3
    /\ messages[1].type = "ai"
    /\ messages[2].type = "tool" /\ messages[2].tool_call_id = "t1"
    /\ messages[3].type = "tool" /\ messages[3].tool_call_id = "t1"
    /\ extractStringFromMessageContent(messages[2]) = <<"result-x">>
    /\ extractStringFromMessageContent(messages[3]) = <<"result-y">>
    /\ Len(processedMessages.turns) = 1
    /\ \E j \in 1..Len(processedMessages.turns[1].toolCalls) :
           /\ processedMessages.turns[1].toolCalls[j].id = "t1"
           /\ processedMessages.turns[1].toolCalls[j].status = "completed"
           /\ processedMessages.turns[1].toolCalls[j].result.text = <<"result-y">>

\* C24: with unique message ids, a tool call whose id stands on an earlier
\* tool call, of an earlier turn or of its own turn, is pending and has no
\* result, whatever tool messages the thread holds.
C24_LaterOccurrencesStayPending ==
    UniqueMessageIds(messages) =>
        \A i \in 1..Len(processedMessages.turns) :
            LET turn == processedMessages.turns[i]
            IN  \A j \in 1..Len(turn.toolCalls) :
                    ~IsFirstWithId(processedMessages.turns, i, j) =>
                        /\ turn.toolCalls[j].status = "pending"
                        /\ turn.toolCalls[j].result = NoResult

\* Two assistant messages have a tool call with the id t1 and a tool
\* message with that id follows both: the call of the first turn is
\* completed, the one of the second turn is pending.
C24_Witness ==
    /\ Len(messages) = 3
    /\ messages[1].type = "ai" /\ messages[2].type = "ai"
    /\ messages[3].type = "tool" /\ messages[3].tool_call_id = "t1"
    /\ Len(processedMessages.turns) = 2
    /\ \E j \in 1..Len(processedMessages.turns[1].toolCalls) :
           /\ processedMessages.turns[1].toolCalls[j].id = "t1"
           /\ processedMessages.turns[1].toolCalls[j].status = "completed"
    /\ \E k \in 1..Len(processedMessages.turns[2].toolCalls) :
           /\ processedMessages.turns[2].toolCalls[k].id = "t1"
           /\ processedMessages.turns[2].toolCalls[k].status = "pending"

\* The positions of the human and assistant messages, and of those whose id
\* no earlier human or assistant message has.
TurnPositions == {p \in 1..Len(messages) : IsTurnMessage(messages[p])}
FirstOccurrences ==
    {p \in TurnPositions : \A q \in TurnPositions : q < p => messages[q].id # messages[p].id}
LastOccurrence(id) ==
    Latest({p \in TurnPositions : messages[p].id = id})

\* C25: the output has one turn for every id of a human or assistant
\* message, in the order of the first occurrences of the ids; the turn
\* carries the message of the last occurrence of its id and the tool calls
\* of that message, and such a call is completed only by a tool message
\* that stands after the last occurrence: what an earlier occurrence had
\* recorded is gone.
C25_RepeatedIdKeepsPlaceTakesLast ==
    /\ ~processedMessages.threw
    /\ Len(processedMessages.turns) = Cardinality(FirstOccurrences)
    /\ \A p \in FirstOccurrences :
         LET turn == processedMessages.turns[Cardinality({q \in FirstOccurrences : q <= p})]
             last == LastOccurrence(messages[p].id)
         IN  /\ turn.message = messages[last]
             /\ Len(turn.toolCalls) =
                    IF messages[last].type = "ai"
                    THEN Len(toolCallsInMessage(messages[last])) ELSE 0
             /\ \A j \in 1..Len(turn.toolCalls) :
                    turn.toolCalls[j].status = "completed" =>
                        \E k \in (last + 1)..Len(messages) :
                            /\ messages[k].type = "tool"
                            /\ messages[k].tool_call_id = turn.toolCalls[j].id

\* An assistant message with the call t1, its result, and an assistant
\* message with the same message id: one turn, with the later message and
\* its two calls, both pending.
C25_Witness ==
    /\ Len(messages) = 3
    /\ messages[1].type = "ai"
    /\ messages[2].type = "tool" /\ messages[2].tool_call_id = "t1"
    /\ messages[3].type = "ai" /\ messages[3].id = messages[1].id
    /\ messages[3] # messages[1]
    /\ \E j \in 1..Len(toolCallsInMessage(messages[1])) :
           toolCallsInMessage(messages[1])[j].id = "t1"
    /\ Len(processedMessages.turns) = 1
    /\ processedMessages.turns[1].message = messages[3]
    /\ Len(processedMessages.turns[1].toolCalls) = 2
    /\ \A j \in 1..2 : processedMessages.turns[1].toolCalls[j].status = "pending"

\* C26: a tool call made from an invocation without an id has a synthetic
\* id, is pending and has no result in every output; and a tool message
\* with a missing or empty tool_call_id changes nothing: the output is what
\* it is without that message.
C26_NoIdStaysPending ==
    /\ \A i \in 1..Len(processedMessages.turns) :
         LET turn == processedMessages.turns[i]
         IN  \A j \in 1..Len(turn.toolCalls) :
                 Falsy(toolCallsInMessage(turn.message)[j].id) =>
                     /\ turn.toolCalls[j].id \in SyntheticIds
                     /\ turn.toolCalls[j].status = "pending"
                     /\ turn.toolCalls[j].result = NoResult
    /\ \A k \in 1..Len(messages) :
         (messages[k].type = "tool" /\ Falsy(messages[k].tool_call_id)) =>
             \A d \in Draws(messages) :
                 reconcile(messages, d) = reconcile(Without(messages, k), d)

\* An assistant message with an invocation that has no id is followed by a
\* tool message without tool_call_id and by one whose tool_call_id is
\* empty; the call has a synthetic id and is pending.
C26_Witness ==
    /\ Len(messages) = 3
    /\ messages[1].type = "ai"
    /\ messages[2].type = "tool" /\ messages[2].tool_call_id = Undefined
    /\ messages[3].type = "tool" /\ messages[3].tool_call_id = ""
    /\ Len(processedMessages.turns) = 1
    /\ \E j \in 1..Len(processedMessages.turns[1].toolCalls) :
           /\ Falsy(toolCallsInMessage(messages[1])[j].id)
           /\ processedMessages.turns[1].toolCalls[j].id \in SyntheticIds
           /\ processedMessages.turns[1].toolCalls[j].status = "pending"

\* The thread id of the current agent.
currentThreadId == agentThreadIds[currentAgent]

\* C27 (as claimed): once every getState request has settled, the todos and
\* files shown are those of the current thread of the current agent, or
\* empty; and isLoadingThreadState is true while the request for the
\* current thread is in flight.
C27_FetchesDoNotRace ==
    /\ requests = {} =>
           /\ todos \in {NoTodos} \cup
                  (IF currentThreadId = NullThread THEN {} ELSE {TodosOf(currentThreadId)})
           /\ files \in {NoFiles} \cup
                  (IF currentThreadId = NullThread THEN {} ELSE {FilesOf(currentThreadId)})
    /\ [agent |-> currentAgent, thread |-> currentThreadId] \in requests
           => isLoadingThreadState

\* The second effect of HomePage runs in the step: the current thread id,
\* the current agent or the access token has changed.
fetchThreadStateRuns ==
    <<currentThreadId, currentAgent, accessToken>>' #
        <<currentThreadId, currentAgent, accessToken>>

\* C28: when fetchThreadState runs without a current thread id or without
\* an access token, todos and files become empty and isLoadingThreadState
\* false and no request is started; when getState fails, todos and files
\* become empty; a request that settles sets isLoadingThreadState to
\* false, and while requests are in flight that eventually happens.
C28_FetchErrorHandling ==
    /\ [][/\ (fetchThreadStateRuns /\ (currentThreadId' = NullThread \/ Falsy(accessToken')))
              => /\ todos' = NoTodos
                 /\ files' = NoFiles
                 /\ isLoadingThreadState' = FALSE
                 /\ requests' = requests
          /\ (\E request \in requests : getStateRejects(request))
              => (todos' = NoTodos /\ files' = NoFiles)
          /\ getStateSettles => isLoadingThreadState' = FALSE]_vars
    /\ (requests # {}) ~> ~isLoadingThreadState

\* The access token has gone while a thread is current: todos and files are
\* empty, no request is in flight and nothing is loading.
C28_Witness ==
    /\ Falsy(accessToken)
    /\ currentThreadId = CreatedThread(1)
    /\ requests = {}
    /\ todos = NoTodos /\ files = NoFiles
    /\ ~isLoadingThreadState

\* text is raw without the white space at its two ends.
IsTrimOf(text, raw) ==
    /\ text # <<>> => ~IsWhiteSpace(text[1]) /\ ~IsWhiteSpace(text[Len(text)])
    /\ \E from \in 1..(Len(raw) + 1) :
           /\ \A k \in 1..(from - 1) : IsWhiteSpace(raw[k])
           /\ \A k \in (from + Len(text))..Len(raw) : IsWhiteSpace(raw[k])
           /\ from + Len(text) - 1 <= Len(raw)
           /\ text = SubSeq(raw, from, from + Len(text) - 1)

\* What a handleSubmit that has just run has done, given what it saw.
SubmitDoneRight ==
    submitEvent # Null =>
        LET seen == submitEvent[1]
        IN  /\ input = seen.input
            /\ IF IsTrimOf(<<>>, seen.input) \/ seen.isLoading
               THEN /\ seen.calls = <<>>
                    /\ pendingSends = seen.pending
               ELSE /\ Len(seen.calls) = 1
                    /\ IsTrimOf(seen.calls[1], seen.input)
                    /\ pendingSends = Append(seen.pending, seen.calls[1])

\* C29: a handleSubmit whose trimmed input is empty, or that runs while the
\* stream is loading, calls sendMessage not at all and leaves the input as it
\* is; any other handleSubmit calls sendMessage once, with the trimmed
\* input, and every step in which that call settles, after a stream.submit
\* that failed too, leaves the input empty.
C29_SubmitSendsOnceThenClears ==
    /\ []SubmitDoneRight
    /\ [][Len(pendingSends') < Len(pendingSends) => input' = <<>>]_vars

\* The padded input has been submitted with the stream at rest: one call of
\* sendMessage, with the text without its padding, awaits stream.submit.
C29_Witness ==
    /\ submitEvent # Null
    /\ submitEvent[1].input = <<" ", "h", "i", " ", "y", "o", "u", "\n">>
    /\ submitEvent[1].calls = <<<<"h", "i", " ", "y", "o", "u">>>>
    /\ pendingSends = submitEvent[1].calls
    /\ isLoading
    /\ input = submitEvent[1].input

\* C30 (as claimed): while the prompt dialog is closed editingPrompt is
\* null, so that the New Prompt button opens the dialog in its create mode.
C30_ClosedDialogHasNoEditingPrompt ==
    ~isDialogOpen => editingPrompt = Null
=============================================================================
